---- MODULE Spec2Model ----
(***************************************************************************)
(* The CO2 dashboard (src/app.py and its split-out copy under              *)
(* src/data_loader.py, src/utils.py and src/visualizations/) as a state    *)
(* machine.  The base tables are loaded once from the CSV files; every     *)
(* change of a sidebar or tab widget re-runs the whole script, which       *)
(* filters the tables and recomputes the KPI row, the event overlay, the   *)
(* treemap and race tables and the cross-correlation section.              *)
(*                                                                         *)
(* Numbers.  The script works on floats; the model works on exact          *)
(* integers.  Data values are drawn from sets for which every percent      *)
(* change is a whole number.  A correlation coefficient                    *)
(*     cvf[k] / (std(x) * std(y))                                          *)
(* is kept as the exact triple  num / sqrt(d1 * d2)  (see Corr), a KPI     *)
(* quotient as the pair [num, den], and the float specials nan and inf     *)
(* are the markers NaN and PosInf.                                         *)
(*                                                                         *)
(* Three families of sessions are checked: Spec, on files of two countries *)
(* over ten and more years, where the user works the widgets of the        *)
(* cross-correlation; OverviewSpec, on files of eleven countries over a    *)
(* few years with events and land areas, where the user works the period   *)
(* and the event controls; SidebarSpec, where the user works the preset    *)
(* selectbox and the country multiselect, also on sessions in which a file *)
(* does not exist.                                                         *)
(***************************************************************************)
EXTENDS Integers, Sequences, FiniteSets, TLC

(***************************************************************************)
(* Bounds of the input space.                                              *)
(***************************************************************************)
\* the longest wide table has this many year columns
MaxYears == 34
\* year columns of the files of the overview sessions
MaxOverviewYears == 4

(***************************************************************************)
(* Program constants.                                                      *)
(***************************************************************************)
\* lower default of the "Select period" slider; first year of the data
YearMin == 1970
\* fewest overlapping years for which a correlation is computed
MinOverlap == 10
\* absolute cap of the "Max Lag" slider
LagCap == 10
\* preferred default of the "Max Lag" slider
LagDefault == 5
\* the overlap is divided by this to bound the lag
LagDivisor == 3

\* float("nan"): a missing cell of a table, or an undefined result
NaN == 2000000000
\* float("inf"): the percent change from a zero previous total
PosInf == 2000000001

isna(v) == v = NaN
IsFinite(v) == v < NaN

Abs(a) == IF a < 0 THEN -a ELSE a
Min(a, b) == IF a <= b THEN a ELSE b
Max(a, b) == IF a >= b THEN a ELSE b

InSeq(x, s) == \E i \in 1..Len(s) : s[i] = x

\* a lazily defined finite sequence, evaluated once into a list
AsList(f) == SubSeq(f, 1, Len(f))

(***************************************************************************)
(* Loading: wide tables (one column per year) melted to long form.         *)
(* pandas.melt emits, for each year column in turn, one row per row of     *)
(* the wide table.                                                         *)
(***************************************************************************)
MeltIndex(i, nIds) == [col |-> ((i - 1) \div nIds) + 1, id |-> ((i - 1) % nIds) + 1]

\* fossil_CO2_totals_by_country.csv melted
melt_totals(ids, years, val) ==
    [i \in 1..(Len(ids) * Len(years)) |->
        LET ix == MeltIndex(i, Len(ids)) IN
        [Country |-> ids[ix.id], Year |-> years[ix.col],
         CO2 |-> val[ids[ix.id]][years[ix.col]]]]

\* fossil_CO2_per_capita_by_country.csv melted
melt_capita(ids, years, val) ==
    [i \in 1..(Len(ids) * Len(years)) |->
        LET ix == MeltIndex(i, Len(ids)) IN
        [Country |-> ids[ix.id], Year |-> years[ix.col],
         CO2_per_capita |-> val[ids[ix.id]][years[ix.col]]]]

\* fossil_CO2_by_sector_and_country.csv melted; ids are <<Sector, Country>>
melt_sector(ids, years, val) ==
    [i \in 1..(Len(ids) * Len(years)) |->
        LET ix == MeltIndex(i, Len(ids)) IN
        [Sector |-> ids[ix.id][1], Country |-> ids[ix.id][2],
         Year |-> years[ix.col],
         CO2 |-> val[ids[ix.id]][years[ix.col]]]]

\* the World Bank GDP-growth table melted
melt_gdp(ids, years, val) ==
    [i \in 1..(Len(ids) * Len(years)) |->
        LET ix == MeltIndex(i, Len(ids)) IN
        [Country |-> ids[ix.id], Year |-> years[ix.col],
         GDP_Growth |-> val[ids[ix.id]][years[ix.col]]]]

\* the World Bank land-area table melted
melt_land(ids, years, val) ==
    [i \in 1..(Len(ids) * Len(years)) |->
        LET ix == MeltIndex(i, Len(ids)) IN
        [Country |-> ids[ix.id], Year |-> years[ix.col],
         Land_area |-> val[ids[ix.id]][years[ix.col]]]]

(***************************************************************************)
(* A header label or a Year cell of a CSV file is text, kept here as the   *)
(* sequence of its characters.                                             *)
(***************************************************************************)
Digits == <<"0", "1", "2", "3", "4", "5", "6", "7", "8", "9">>
IsDigit(ch) == \E d \in 1..Len(Digits) : Digits[d] = ch
DigitValue(ch) == (CHOOSE d \in 1..Len(Digits) : Digits[d] = ch) - 1

RECURSIVE ParseTo(_, _)
ParseTo(text, i) ==
    IF i = 0 THEN 0 ELSE 10 * ParseTo(text, i - 1) + DigitValue(text[i])

\* pd.to_numeric(x, errors="coerce"): the number, or nan for other text
to_numeric(text) ==
    IF text # <<>> /\ \A i \in 1..Len(text) : IsDigit(text[i])
    THEN ParseTo(text, Len(text)) ELSE NaN

\* variant: a label that is not a number becomes year 0 and its rows stay
coerce_year_KeepAll(df) ==
    AsList([i \in 1..Len(df) |->
        [df[i] EXCEPT !.Year = IF isna(to_numeric(df[i].Year)) THEN 0
                                ELSE to_numeric(df[i].Year)]])

\* df["Year"] = pd.to_numeric(df["Year"], errors="coerce")
\* df.dropna(subset=["Year"], inplace=True); df["Year"] = df["Year"].astype(int)
coerce_year(df) ==
    SelectSeq(AsList([i \in 1..Len(df) |->
                  [df[i] EXCEPT !.Year = to_numeric(df[i].Year)]]),
              LAMBDA r : ~isna(r.Year))

(***************************************************************************)
(* The two country-identity tables, as the dict literals list them.        *)
(***************************************************************************)
\* variant: the abbreviation is mapped to a name that is itself a key of
\* another spelling
get_country_name_mapping_Chained ==
    <<<<"US", "USA">>, <<"USA", "United States">>,
      <<"Russian Federation", "Russia">>>>

get_country_name_mapping ==
    <<<<"Italy", "Italy, San Marino and the Holy See">>,
      <<"Russian Federation", "Russia">>,
      <<"France", "France and Monaco">>,
      <<"Spain", "Spain and Andorra">>,
      <<"Switzerland", "Switzerland and Liechtenstein">>,
      <<"Israel", "Israel and Palestine, State of">>,
      <<"Korea, Rep.", "South Korea">>,
      <<"Korea, Dem. People's Rep.", "North Korea">>,
      <<"United States", "United States">>,
      <<"United Kingdom", "United Kingdom">>,
      <<"China", "China">>,
      <<"Germany", "Germany">>,
      <<"Japan", "Japan">>,
      <<"India", "India">>,
      <<"Canada", "Canada">>,
      <<"Australia", "Australia">>,
      <<"Brazil", "Brazil">>,
      <<"Mexico", "Mexico">>,
      <<"USA", "United States">>,
      <<"US", "United States">>,
      <<"United States of America", "United States">>>>

get_country_iso_mapping ==
    <<<<"Global", "GLOBAL">>, <<"World", "GLOBAL">>,
      <<"United States", "USA">>, <<"China", "CHN">>, <<"Germany", "DEU">>,
      <<"Japan", "JPN">>, <<"United Kingdom", "GBR">>, <<"France", "FRA">>,
      <<"Italy", "ITA">>, <<"India", "IND">>, <<"Russia", "RUS">>,
      <<"Brazil", "BRA">>, <<"Canada", "CAN">>, <<"Australia", "AUS">>,
      <<"South Korea", "KOR">>, <<"Mexico", "MEX">>, <<"Spain", "ESP">>,
      <<"Indonesia", "IDN">>, <<"Netherlands", "NLD">>,
      <<"Saudi Arabia", "SAU">>, <<"Turkey", "TUR">>,
      <<"Switzerland", "CHE">>, <<"Poland", "POL">>, <<"Belgium", "BEL">>,
      <<"Sweden", "SWE">>, <<"Iran", "IRN">>, <<"Austria", "AUT">>,
      <<"Norway", "NOR">>, <<"United Arab Emirates", "ARE">>,
      <<"Argentina", "ARG">>, <<"South Africa", "ZAF">>,
      <<"Denmark", "DNK">>, <<"Thailand", "THA">>, <<"Malaysia", "MYS">>,
      <<"Singapore", "SGP">>, <<"Israel", "ISR">>, <<"Hong Kong", "HKG">>,
      <<"Finland", "FIN">>, <<"Chile", "CHL">>, <<"Portugal", "PRT">>,
      <<"Greece", "GRC">>, <<"Czech Republic", "CZE">>, <<"Czechia", "CZE">>,
      <<"Romania", "ROU">>, <<"Vietnam", "VNM">>, <<"New Zealand", "NZL">>,
      <<"Iraq", "IRQ">>, <<"Kuwait", "KWT">>, <<"Qatar", "QAT">>,
      <<"Kazakhstan", "KAZ">>, <<"Ukraine", "UKR">>, <<"Egypt", "EGY">>,
      <<"Pakistan", "PAK">>, <<"Philippines", "PHL">>, <<"Algeria", "DZA">>,
      <<"Colombia", "COL">>, <<"Bangladesh", "BGD">>, <<"Hungary", "HUN">>,
      <<"Slovakia", "SVK">>, <<"Bulgaria", "BGR">>, <<"Croatia", "HRV">>,
      <<"Lithuania", "LTU">>, <<"Slovenia", "SVN">>, <<"Latvia", "LVA">>,
      <<"Estonia", "EST">>, <<"Luxembourg", "LUX">>, <<"Cyprus", "CYP">>,
      <<"Malta", "MLT">>, <<"Ireland", "IRL">>, <<"Bahrain", "BHR">>,
      <<"Brunei", "BRN">>, <<"North Korea", "PRK">>>>

\* mapping.get(x, x)
MapGet(mapping, x) ==
    IF \E i \in 1..Len(mapping) : mapping[i][1] = x
    THEN mapping[CHOOSE i \in 1..Len(mapping) : mapping[i][1] = x][2]
    ELSE x

\* df[country_column].map(lambda x: mapping.get(x, x))
normalize_country_names(df) ==
    AsList([i \in 1..Len(df) |->
        [df[i] EXCEPT !.Country = MapGet(get_country_name_mapping, df[i].Country)]])

\* df["ISOcode"] = df["Country"].map(lambda x: iso_mapping.get(x, x))
add_iso_codes_to_events(df) ==
    AsList([i \in 1..Len(df) |->
        [Country |-> df[i].Country, Year |-> df[i].Year, Event |-> df[i].Event,
         ISOcode |-> MapGet(get_country_iso_mapping, df[i].Country)]])

(***************************************************************************)
(* The loaders.  A wide file is [ids, columns, val]: the identifier rows   *)
(* in file order, the labels of the other columns in file order, and the   *)
(* cell of each identifier under each label.                               *)
(***************************************************************************)
load_totals(w) == coerce_year(melt_totals(w.ids, w.columns, w.val))
load_capita(w) == coerce_year(melt_capita(w.ids, w.columns, w.val))
load_sector(w) == coerce_year(melt_sector(w.ids, w.columns, w.val))

load_land_area_data(w) == coerce_year(melt_land(w.ids, w.columns, w.val))
load_gdp_data(w) == coerce_year(melt_gdp(w.ids, w.columns, w.val))

\* the events file is long already: rows [Country, Year, Event]; the
\* split-out loader adds the ISO column
load_events_data(rows) == add_iso_codes_to_events(coerce_year(rows))

(***************************************************************************)
(* src/data.py: the three sheets of CO2.xlsx, melted at import time.  The  *)
(* labels are converted with Series.astype(int), which raises ValueError   *)
(* on a label that is not an integer; nothing catches it.                  *)
(***************************************************************************)
ValueError == "ValueError"

\* df['Year'] = df['Year'].astype(int)
astype_int(df) ==
    IF \E i \in 1..Len(df) : isna(to_numeric(df[i].Year))
    THEN ValueError
    ELSE AsList([i \in 1..Len(df) |->
             [df[i] EXCEPT !.Year = to_numeric(df[i].Year)]])

\* the results of the module, df_totals, df_per_capita and df_sector, on
\* the sheets w
sheet_totals(w) == astype_int(melt_totals(w.ids, w.columns, w.val))
sheet_per_capita(w) == astype_int(melt_capita(w.ids, w.columns, w.val))
sheet_sector(w) == astype_int(melt_sector(w.ids, w.columns, w.val))

(***************************************************************************)
(* Section 8 of the script: the sidebar selection applied to a table.      *)
(***************************************************************************)
\* variant: the upper end excluded
between_Exclusive(y, lo, hi) == lo <= y /\ y < hi

\* Series.between(lo, hi): both ends included
between(y, lo, hi) == lo <= y /\ y <= hi

\* variant: no selection read as no restriction
FilterTable_EmptyIsAll(df, selected, yr) ==
    SelectSeq(df, LAMBDA r : (selected = <<>> \/ InSeq(r.Country, selected))
                             /\ between(r.Year, yr[1], yr[2]))

\* df[df["Country"].isin(selected_countries) & df["Year"].between(*year_range)]
FilterTable(df, selected, yr) ==
    SelectSeq(df, LAMBDA r : InSeq(r.Country, selected)
                             /\ between(r.Year, yr[1], yr[2]))

(***************************************************************************)
(* Tab 2, cross-correlation: the two aligned series of one country.        *)
(***************************************************************************)
\* r put behind the rows of the sorted s whose Year is not larger
InsertByYear(s, r) ==
    IF s = <<>> \/ s[Len(s)].Year <= r.Year THEN Append(s, r)
    ELSE LET p == Cardinality({i \in 1..Len(s) : s[i].Year <= r.Year})
         IN  SubSeq(s, 1, p) \o <<r>> \o SubSeq(s, p + 1, Len(s))

\* DataFrame.sort_values("Year")
RECURSIVE sort_values(_)
sort_values(s) ==
    IF s = <<>> THEN <<>>
    ELSE InsertByYear(sort_values(SubSeq(s, 1, Len(s) - 1)), s[Len(s)])

\* one step of Series.pct_change() * 100 on non-negative totals:
\* (cur / prev - 1) * 100, with 0/0 = nan and x/0 = inf
PctChange100(prev, cur) ==
    IF prev = 0
    THEN IF cur = 0 THEN NaN ELSE PosInf
    ELSE ((cur - prev) * 100) \div prev

\* df_totals[df_totals["Country"] == c][["Year","CO2"]].sort_values("Year")
\* .dropna(), then the CO2_YoY_Change column: the change from the previous
\* ROW, undefined on the first row
co2_country(totals, c) ==
    LET own  == SelectSeq(totals, LAMBDA r : r.Country = c)
        base == SelectSeq(sort_values(own), LAMBDA r : ~isna(r.CO2))
    IN  AsList([i \in 1..Len(base) |->
            [Year |-> base[i].Year, CO2 |-> base[i].CO2,
             CO2_YoY_Change |->
                IF i = 1 THEN NaN
                ELSE PctChange100(base[i - 1].CO2, base[i].CO2)]])

\* df_gdp_growth[...== c][["Year","GDP Growth (annual %)"]].sort_values("Year")
\* .dropna()
gdp_country(gdp, c) ==
    LET own == SelectSeq(gdp, LAMBDA r : r.Country = c)
    IN  SelectSeq(sort_values(own), LAMBDA r : ~isna(r.GDP_Growth))

\* pd.merge(left, right, on="Year", how="inner"): for each left row, in
\* order, one output row per right row of the same Year
RECURSIVE merge_inner(_, _)
merge_inner(left, right) ==
    IF left = <<>> THEN <<>>
    ELSE LET l    == Head(left)
             hits == SelectSeq(right, LAMBDA r : r.Year = l.Year)
         IN  AsList([j \in 1..Len(hits) |->
                 [Year |-> l.Year, CO2_YoY_Change |-> l.CO2_YoY_Change,
                  GDP_Growth |-> hits[j].GDP_Growth]])
             \o merge_inner(Tail(left), right)

\* variant: the join is not followed by dropna()
merged_ccf_of_NoDropna(totals, gdp, c) ==
    merge_inner(co2_country(totals, c), gdp_country(gdp, c))

\* merged_ccf: the inner join with the rows holding a nan dropped (an
\* infinite change is not a missing value and stays)
merged_ccf_of(totals, gdp, c) ==
    SelectSeq(merge_inner(co2_country(totals, c), gdp_country(gdp, c)),
              LAMBDA r : ~isna(r.CO2_YoY_Change) /\ ~isna(r.GDP_Growth))

(***************************************************************************)
(* statsmodels.tsa.stattools.ccf(x, y, adjusted=False), as called by the   *)
(* script:  ccovf(x, y, demean=True) / (std(x) * std(y))  with             *)
(*   ccovf[k] = (1/n) * SUM_{t} (x[t+k] - mean x) * (y[t] - mean y).       *)
(* Every deviation is scaled by n to stay integral, which leaves the       *)
(* quotient unchanged.  Indices are 0-based as in the script.              *)
(***************************************************************************)
RECURSIVE SumTo(_, _)
SumTo(s, i) == IF i = 0 THEN 0 ELSE s[i] + SumTo(s, i - 1)

\* n * (s - s.mean())
Dev(s) ==
    LET n == Len(s)  tot == SumTo(s, Len(s))
    IN  AsList([i \in 1..n |-> n * s[i] - tot])

RECURSIVE SumSqTo(_, _)
SumSqTo(X, i) == IF i = 0 THEN 0 ELSE X[i] * X[i] + SumSqTo(X, i - 1)
SumSq(X) == SumSqTo(X, Len(X))

\* SUM_{t = 1}^{m}  X[t + k] * Y[t]
RECURSIVE CrossTo(_, _, _, _)
CrossTo(X, Y, k, m) ==
    IF m = 0 THEN 0 ELSE X[m + k] * Y[m] + CrossTo(X, Y, k, m - 1)
CrossSum(X, Y, k) == CrossTo(X, Y, k, Len(X) - k)

\* the float  num / sqrt(d1 * d2), or nan
Corr(num, sx, sy) ==
    [nan |-> FALSE, num |-> num, d1 |-> Min(sx, sy), d2 |-> Max(sx, sy)]
NaNCorr == [nan |-> TRUE, num |-> 0, d1 |-> 0, d2 |-> 0]

AllFinite(s) == \A i \in 1..Len(s) : IsFinite(s[i])

ccf(x, y) ==
    LET n  == Len(x)
        ok == AllFinite(x) /\ AllFinite(y)
        X  == Dev(x)
        Y  == Dev(y)
        sx == SumSq(X)
        sy == SumSq(Y)
        \* an inf makes mean and std nan; a constant series makes std 0
        \* and the quotient 0/0: numpy warns and yields nan, it does not raise
        undefined == ~ok \/ sx = 0 \/ sy = 0
    IN  [k \in 0..(n - 1) |->
            IF undefined THEN NaNCorr ELSE Corr(CrossSum(X, Y, k), sx, sy)]

\* np.arange(-max_lag, max_lag + 1)
lags_of(max_lag) == [i \in 0..(2 * max_lag) |-> i - max_lag]

\* variant: the non-negative lags read one position further
ccf_entry_Shifted(ccf_pos, ccf_swapped, lag) ==
    IF lag < 0 THEN ccf_swapped[Abs(lag)] ELSE ccf_pos[lag + 1]

\* one entry of ccf_subset: the body of the for loop over lags, on
\* ccf_pos = ccf(co2_series, gdp_series) and ccf(gdp_series, co2_series)
ccf_entry(ccf_pos, ccf_swapped, lag) ==
    IF lag < 0 THEN ccf_swapped[Abs(lag)] ELSE ccf_pos[lag]

ccf_subset_of(co2_series, gdp_series, max_lag) ==
    LET ccf_pos     == ccf(co2_series, gdp_series)
        ccf_swapped == ccf(gdp_series, co2_series)
        entries     == AsList([j \in 1..(2 * max_lag + 1) |->
                          ccf_entry(ccf_pos, ccf_swapped, lags_of(max_lag)[j - 1])])
    IN  [i \in 0..(2 * max_lag) |-> entries[i + 1]]

\* variant: the signed values compared
AbsGreater_Signed(a, b) == ~a.nan /\ ~b.nan /\ a.num > b.num

\* variant: a later equal value replaces the best so far
AbsGreater_OrEqual(a, b) == ~a.nan /\ ~b.nan /\ Abs(a.num) >= Abs(b.num)

\* np.abs(a) > np.abs(b) for two entries of one ccf_subset (they share
\* the denominator std(x) * std(y))
AbsGreater(a, b) == ~a.nan /\ ~b.nan /\ Abs(a.num) > Abs(b.num)

\* np.argmax(np.abs(ccf_subset)): the first nan if there is one, else the
\* first index holding the maximum
RECURSIVE ArgmaxScan(_, _, _)
ArgmaxScan(f, i, best) ==
    IF i \notin DOMAIN f THEN best
    ELSE ArgmaxScan(f, i + 1, IF AbsGreater(f[i], f[best]) THEN i ELSE best)

\* variant: the last index holding the maximum
argmax_abs_Last(f) ==
    IF \E i \in DOMAIN f : f[i].nan
    THEN CHOOSE i \in DOMAIN f :
            f[i].nan /\ \A j \in DOMAIN f : f[j].nan => i <= j
    ELSE CHOOSE i \in DOMAIN f :
            /\ \A j \in DOMAIN f : Abs(f[j].num) <= Abs(f[i].num)
            /\ \A j \in DOMAIN f : Abs(f[j].num) = Abs(f[i].num) => j <= i

argmax_abs(f) ==
    IF \E i \in DOMAIN f : f[i].nan
    THEN CHOOSE i \in DOMAIN f :
            f[i].nan /\ \A j \in DOMAIN f : f[j].nan => i <= j
    ELSE ArgmaxScan(f, 1, 0)

\* variant: the two directions exchanged
interp_of_Swapped(peak_lag) ==
    IF peak_lag = 0 THEN [text |-> "synchronous", years |-> 0]
    ELSE IF peak_lag < 0
         THEN [text |-> "CO2 changes lead GDP", years |-> Abs(peak_lag)]
         ELSE [text |-> "GDP growth leads CO2", years |-> peak_lag]

\* the if / elif / else choosing the st.info text
interp_of(peak_lag) ==
    IF peak_lag = 0 THEN [text |-> "synchronous", years |-> 0]
    ELSE IF peak_lag < 0
         THEN [text |-> "GDP growth leads CO2", years |-> Abs(peak_lag)]
         ELSE [text |-> "CO2 changes lead GDP", years |-> peak_lag]

\* variant: half the overlap instead of a third
max_possible_lag_of_Half(n) == Min(LagCap, n \div 2)

\* min(10, len(merged_ccf) // 3)
max_possible_lag_of(n) == Min(LagCap, n \div LagDivisor)

\* the slider's default value: min(5, max_possible_lag)
default_lag_of(n) == Min(LagDefault, max_possible_lag_of(n))

\* variant: nine rows pass
insufficient_OffByOne(merged) == Len(merged) < MinOverlap - 1

\* variant: only an empty table is refused
insufficient_OnlyEmpty(merged) == Len(merged) = 0

\* len(merged_ccf) < 10
insufficient(merged) == Len(merged) < MinOverlap

(***************************************************************************)
(* Tab 1: the KPI row.  Sums are exact; a quotient is kept as the pair     *)
(* [num, den] of the division the script performs, and the CAGR            *)
(*     (latest_total / start_total) ** (1 / years_diff) - 1                *)
(* as that quotient together with years_diff.                              *)
(***************************************************************************)
\* Series.sum(): missing cells are skipped, the empty sum is 0
RECURSIVE nansum_to(_, _)
nansum_to(s, i) ==
    IF i = 0 THEN 0
    ELSE (IF isna(s[i]) THEN 0 ELSE s[i]) + nansum_to(s, i - 1)
nansum(s) == nansum_to(s, Len(s))

\* variant: the earliest year of the table taken for the latest
latest_year_of_Earliest(df_t, yr) ==
    IF df_t # <<>>
    THEN CHOOSE y \in {df_t[i].Year : i \in 1..Len(df_t)} :
             \A i \in 1..Len(df_t) : y <= df_t[i].Year
    ELSE yr[2]

\* int(df_t_filtered["Year"].max()) if not df_t_filtered.empty else year_range[1]
latest_year_of(df_t, yr) ==
    IF df_t # <<>>
    THEN CHOOSE y \in {df_t[i].Year : i \in 1..Len(df_t)} :
             \A i \in 1..Len(df_t) : y >= df_t[i].Year
    ELSE yr[2]

\* df_t_filtered[df_t_filtered["Year"] == year]["CO2"].sum()
year_total(df_t, year) ==
    LET rows == SelectSeq(df_t, LAMBDA r : r.Year = year)
    IN  nansum([i \in 1..Len(rows) |-> rows[i].CO2])

\* df_t_filtered["Year"].min(): nan on the empty table
start_year_of(df_t) ==
    IF df_t = <<>> THEN NaN
    ELSE CHOOSE y \in {df_t[i].Year : i \in 1..Len(df_t)} :
             \A i \in 1..Len(df_t) : y <= df_t[i].Year

Quotient(a, b) == [num |-> a, den |-> b]
Zero == [num |-> 0, den |-> 1]

\* variant: the quotient formed whatever the previous total is
yoy_of_Unguarded(latest_total, prev_total) ==
    Quotient((latest_total - prev_total) * 100, prev_total)

\* ((latest_total - prev_total) / prev_total * 100) if prev_total else 0
yoy_of(latest_total, prev_total) ==
    IF prev_total # 0
    THEN Quotient((latest_total - prev_total) * 100, prev_total)
    ELSE Zero

\* variant: only the start total is looked at
cagr_of_NoYearTest(latest_total, start_total, latest_year, start_year) ==
    IF start_total > 0
    THEN [zero |-> FALSE, ratio |-> Quotient(latest_total, start_total),
          years_diff |-> latest_year - start_year]
    ELSE [zero |-> TRUE, ratio |-> Zero, years_diff |-> 1]

\* if start_total > 0 and latest_year > start_year: ... else: cagr = 0.0
\* (a comparison with the nan start year of an empty table is false)
cagr_of(latest_total, start_total, latest_year, start_year) ==
    IF start_total > 0 /\ ~isna(start_year) /\ latest_year > start_year
    THEN [zero |-> FALSE, ratio |-> Quotient(latest_total, start_total),
          years_diff |-> latest_year - start_year]
    ELSE [zero |-> TRUE, ratio |-> Zero, years_diff |-> 1]

\* the KPI row of one run
kpi_of(df_t, latest_year) ==
    LET latest_total == year_total(df_t, latest_year)
        prev_total   == year_total(df_t, latest_year - 1)
        start_year   == start_year_of(df_t)
        start_total  == year_total(df_t, start_year)
    IN  [latest_total |-> latest_total,
         prev_total |-> prev_total,
         yoy |-> yoy_of(latest_total, prev_total),
         cumulative_total |-> nansum([i \in 1..Len(df_t) |-> df_t[i].CO2]),
         start_year |-> start_year,
         start_total |-> start_total,
         cagr |-> cagr_of(latest_total, start_total, latest_year, start_year)]

(***************************************************************************)
(* Tab 1: historic events on the trend chart.                              *)
(***************************************************************************)
GlobalMarkers == <<"Global", "World">>

\* variant: global_mask | local_mask & year_mask, unparenthesised
filter_events_GlobalAnyYear(events_df, selected, yr) ==
    SelectSeq(events_df,
              LAMBDA e : \/ InSeq(e.Country, GlobalMarkers)
                         \/ /\ InSeq(e.Country, selected)
                            /\ between(e.Year, yr[1], yr[2]))

\* events_df[(global_mask | local_mask) & year_mask]
filter_events(events_df, selected, yr) ==
    SelectSeq(events_df,
              LAMBDA e : /\ \/ InSeq(e.Country, GlobalMarkers)
                            \/ InSeq(e.Country, selected)
                         /\ between(e.Year, yr[1], yr[2]))

\* the five vertical offsets 0.95 .. 0.55, in hundredths
y_positions == <<95, 85, 75, 65, 55>>

EmptyFig == [vlines |-> <<>>, annotations |-> <<>>]

line_color_of(e) == IF InSeq(e.Country, GlobalMarkers) THEN "#4A90D9" ELSE "#E85D3A"

\* variant: the offsets are never recycled past the fifth event
y_ref_of_Clamped(i) == y_positions[Min(i, Len(y_positions) - 1) + 1]

\* y_positions[i % len(y_positions)], i counted from 0
y_ref_of(i) == y_positions[(i % Len(y_positions)) + 1]

\* one fig.add_vline and one fig.add_annotation per filtered event
add_events_to_fig(fig, events_df, selected, yr) ==
    LET filtered == filter_events(events_df, selected, yr)
    IN  [vlines |-> fig.vlines \o
             AsList([i \in 1..Len(filtered) |->
                 [x |-> filtered[i].Year, line_color |-> line_color_of(filtered[i])]]),
         annotations |-> fig.annotations \o
             AsList([i \in 1..Len(filtered) |->
                 [x |-> filtered[i].Year, y |-> y_ref_of(i - 1),
                  text |-> filtered[i].Event,
                  hover_country |-> filtered[i].Country,
                  line_color |-> line_color_of(filtered[i])]])]

\* df_events[df_events["Country"].isin(evt_cats)]
events_sub_of(events, evt_cats) ==
    SelectSeq(events, LAMBDA e : e.Country \in evt_cats)

\* sorted(df_events["Country"].unique()), as the set of the options
categories_of(events) == {events[i].Country : i \in 1..Len(events)}

\* the split-out tab 1 (render_tab1_charts), which is given ISO codes:
\* df_events[df_events["ISOcode"].isin(evt_iso_codes)], then
\* add_events_to_fig(fig_trend, events_sub, selected_iso_codes, year_range)
render_tab1_events(events, selected_iso_codes, yr, show, evt_iso_codes) ==
    IF show
    THEN add_events_to_fig(EmptyFig,
                           SelectSeq(events, LAMBDA e : e.ISOcode \in evt_iso_codes),
                           selected_iso_codes, yr)
    ELSE EmptyFig

(***************************************************************************)
(* Tab 1: the treemap's join of the latest totals with the land areas.     *)
(***************************************************************************)
\* pd.merge(..., on="Country", how="inner"): for each row of the totals in
\* turn, one row per land-area row of the same country
RECURSIVE merge_tree(_, _)
merge_tree(co2_latest, land_latest) ==
    IF co2_latest = <<>> THEN <<>>
    ELSE LET l == Head(co2_latest)
             m == SelectSeq(land_latest, LAMBDA r : r.Country = l.Country)
         IN  AsList([j \in 1..Len(m) |->
                 [Country |-> l.Country, CO2 |-> l.CO2,
                  Land_area |-> m[j].Land_area]])
             \o merge_tree(Tail(co2_latest), land_latest)

df_tree_of(df_t, land, selected, latest_year) ==
    LET df_land_latest == SelectSeq(land,
            LAMBDA r : r.Year = latest_year /\ InSeq(r.Country, selected))
        df_co2_latest  == SelectSeq(df_t, LAMBDA r : r.Year = latest_year)
    IN  SelectSeq(AsList(merge_tree(df_co2_latest, df_land_latest)),
                  LAMBDA r : ~isna(r.Land_area) /\ ~isna(r.CO2))

(***************************************************************************)
(* Tab 2: the per-capita race keeps the ten largest rows of each year.     *)
(***************************************************************************)
RaceTop == 10

\* variant: the smaller value first
RaceBefore_Ascending(a, b) ==
    \/ a.Year < b.Year
    \/ /\ a.Year = b.Year
       /\ ~isna(a.CO2_per_capita)
       /\ (isna(b.CO2_per_capita) \/ a.CO2_per_capita < b.CO2_per_capita)

\* a sorts before b: Year ascending, then CO2_per_capita descending with
\* the missing cells last
RaceBefore(a, b) ==
    \/ a.Year < b.Year
    \/ /\ a.Year = b.Year
       /\ ~isna(a.CO2_per_capita)
       /\ (isna(b.CO2_per_capita) \/ a.CO2_per_capita > b.CO2_per_capita)

\* df_c_filtered.sort_values(["Year", "CO2_per_capita"], ascending=[True, False]):
\* a row goes behind the rows that sort before it and behind the earlier
\* rows that compare equal to it
race_sort(df) ==
    LET n    == Len(df)
        rank == AsList([i \in 1..n |->
                    1 + Cardinality({j \in 1..n :
                            \/ RaceBefore(df[j], df[i])
                            \/ (j < i /\ ~RaceBefore(df[i], df[j]))})])
    IN  AsList([k \in 1..n |-> df[CHOOSE i \in 1..n : rank[i] = k]])

\* groupby("Year").head(limit): a row stays if fewer than limit rows of
\* its year precede it
head(sorted, limit) ==
    SelectSeq(AsList([i \in 1..Len(sorted) |-> [row |-> sorted[i], pos |-> i]]),
              LAMBDA p : Cardinality({j \in 1..(p.pos - 1) :
                             sorted[j].Year = p.row.Year}) < limit)

df_race_of(df_c) ==
    LET kept == head(race_sort(df_c), RaceTop)
    IN  AsList([i \in 1..Len(kept) |-> kept[i].row])

(***************************************************************************)
(* The input space: the CSV files the session may have been started on.    *)
(* Every wide table has a column for each year YearMin .. YearMin + ny - 1 *)
(* and a row per country; a country's yearly values repeat a short motif.  *)
(***************************************************************************)
US == "United States"
CN == "China"
\* row order of the wide CSV files
Countries == <<US, CN>>
Sectors == <<"Power Industry", "Transport">>
SectorIds == <<<<Sectors[1], US>>, <<Sectors[1], CN>>,
               <<Sectors[2], US>>, <<Sectors[2], CN>>>>

\* numbers of year columns
YearCounts == {10, 11, 14}
LongYearCounts == {19, MaxYears}

\* yearly CO2 totals: steps between 4 and 5 are changes of +25 % and -20 %;
\* a zero total makes the next change infinite
Co2Motifs == {<<4, 4, 5>>, <<4, 5, 5>>, <<4, 5, 4>>, <<4, 4, 4>>,
              <<0, 4, 5>>, <<5, 0, 0>>}
LongCo2Motifs == {<<4, 5, 5>>, <<4, 4, 4>>}

\* yearly GDP growth, with a motif of missing cells
GdpMotifs == {<<25, -20, 0>>, <<25, 0, -20>>, <<0, 25, -20>>, <<0, -20, 25>>,
              <<-20, 0, 25>>, <<-20, 25, 0>>, <<0, 0, 0>>, <<25, NaN, -20>>}
LongGdpMotifs == {<<25, -20, 0>>, <<0, 25, -20>>}

MotifAt(m, k) == m[(k % Len(m)) + 1]
YearsSeq(ny) == [i \in 1..ny |-> YearMin + i - 1]
YearSet(ny) == YearMin..(YearMin + ny - 1)
\* the second country runs one year ahead in the CO2 motif
Phase(c) == IF c = US THEN 0 ELSE 1

TotalsWide(cm, ny) ==
    [c \in {US, CN} |-> [y \in YearSet(ny) |-> MotifAt(cm, y - YearMin + Phase(c))]]
CapitaWide(cm, ny) ==
    [c \in {US, CN} |-> [y \in YearSet(ny) |-> MotifAt(cm, y - YearMin + Phase(c)) + 1 + Phase(c)]]
SectorWide(cm, ny) ==
    [id \in {SectorIds[i] : i \in 1..Len(SectorIds)} |->
        [y \in YearSet(ny) |-> MotifAt(cm, y - YearMin + Phase(id[2]))
                               + (IF id[1] = Sectors[1] THEN 2 ELSE 0)]]
GdpWide(gm, ny) ==
    [c \in {US, CN} |-> [y \in YearSet(ny) |-> MotifAt(gm, y - YearMin)]]

\* the header label of a year column
LabelOf(y) ==
    <<Digits[((y \div 1000) % 10) + 1], Digits[((y \div 100) % 10) + 1],
      Digits[((y \div 10) % 10) + 1], Digits[(y % 10) + 1]>>
LabelsSeq(years) == AsList([i \in 1..Len(years) |-> LabelOf(years[i])])

\* the wide file with the rows ids, a column per year of years, and the
\* cells cell[id][year]
WideFile(ids, years, cell) ==
    [ids |-> ids, columns |-> LabelsSeq(years),
     val |-> [id \in {ids[i] : i \in 1..Len(ids)} |->
                 [l \in {LabelOf(years[i]) : i \in 1..Len(years)} |->
                     cell[id][CHOOSE y \in {years[i] : i \in 1..Len(years)} :
                                  LabelOf(y) = l]]]]

NoRows == [ids |-> <<>>, columns |-> <<>>, val |-> <<>>]

\* Section 6 of the script: the try block around the four loaders.  A set
\* of files f names the files that do not exist in f.missing; a loader
\* raises FileNotFoundError on such a file, the tables of the later loaders
\* stay unbound and the except branch stops the run.  The script applies
\* the name table to the events and to the two World Bank tables.
Load(f) ==
    LET co2_ok    == {"totals", "capita", "sector"} \cap f.missing = {}
        events_ok == co2_ok /\ "events" \notin f.missing
        land_ok   == events_ok /\ "land" \notin f.missing
        gdp_ok    == land_ok /\ "gdp" \notin f.missing
    IN  [files  |-> f,
         failed |-> ~gdp_ok,
         totals |-> IF co2_ok THEN load_totals(f.totals) ELSE <<>>,
         capita |-> IF co2_ok THEN load_capita(f.capita) ELSE <<>>,
         sector |-> IF co2_ok THEN load_sector(f.sector) ELSE <<>>,
         gdp    |-> IF gdp_ok
                    THEN normalize_country_names(load_gdp_data(f.gdp)) ELSE <<>>,
         events |-> IF events_ok
                    THEN normalize_country_names(load_events_data(f.events))
                    ELSE <<>>,
         land   |-> IF land_ok
                    THEN normalize_country_names(load_land_area_data(f.land))
                    ELSE <<>>]

\* one set of files: no events and no land areas
Dataset(cm, gm, ny) ==
    Load([totals |-> WideFile(Countries, YearsSeq(ny), TotalsWide(cm, ny)),
          capita |-> WideFile(Countries, YearsSeq(ny), CapitaWide(cm, ny)),
          sector |-> WideFile(SectorIds, YearsSeq(ny), SectorWide(cm, ny)),
          gdp    |-> WideFile(Countries, YearsSeq(ny), GdpWide(gm, ny)),
          events |-> <<>>,
          land   |-> NoRows,
          missing |-> {}])

\* five years of totals growing by 2, 3, 1 and 4 per cent, with GDP growth
\* 2, 3, 1, 4 in the last four years
ScenarioTotals == <<100000000, 102000000, 105060000, 106110600, 110355024>>
ScenarioYears == Len(ScenarioTotals)
ScenarioGdp == <<NaN, 2, 3, 1, 4>>
ScenarioDataset ==
    Load([totals |-> WideFile(Countries, YearsSeq(ScenarioYears),
                        [c \in {US, CN} |-> [y \in YearSet(ScenarioYears) |->
                            ScenarioTotals[y - YearMin + 1]]]),
          capita |-> WideFile(Countries, YearsSeq(ScenarioYears),
                        [c \in {US, CN} |-> [y \in YearSet(ScenarioYears) |-> 1]]),
          sector |-> WideFile(SectorIds, YearsSeq(ScenarioYears),
                        [id \in {SectorIds[i] : i \in 1..Len(SectorIds)} |->
                            [y \in YearSet(ScenarioYears) |-> 1]]),
          gdp    |-> WideFile(Countries, YearsSeq(ScenarioYears),
                        [c \in {US, CN} |-> [y \in YearSet(ScenarioYears) |->
                            ScenarioGdp[y - YearMin + 1]]]),
          events |-> <<>>,
          land   |-> NoRows,
          missing |-> {}])

\* fourteen years of files in which a value of one year is not there: the
\* totals file has no column for it, or the United States has no total,
\* or no GDP growth
GapYear == YearMin + 5
GapKinds == {"column", "cell", "gdp"}
GapDataset(kind) ==
    LET ny   == 14
        cm   == <<4, 5, 5>>
        full == TotalsWide(cm, ny)
    IN  Load([totals |-> IF kind = "column"
                         THEN WideFile(Countries,
                                       SelectSeq(YearsSeq(ny), LAMBDA y : y # GapYear),
                                       full)
                         ELSE IF kind = "cell"
                         THEN WideFile(Countries, YearsSeq(ny),
                                       [full EXCEPT ![US][GapYear] = NaN])
                         ELSE WideFile(Countries, YearsSeq(ny), full),
              capita |-> WideFile(Countries, YearsSeq(ny), CapitaWide(cm, ny)),
              sector |-> WideFile(SectorIds, YearsSeq(ny), SectorWide(cm, ny)),
              gdp    |-> WideFile(Countries, YearsSeq(ny),
                                  IF kind = "gdp"
                                  THEN [GdpWide(<<25, -20, 0>>, ny)
                                           EXCEPT ![US][GapYear + 2] = NaN]
                                  ELSE GdpWide(<<25, -20, 0>>, ny)),
              events |-> <<>>,
              land   |-> NoRows,
              missing |-> {}])

Datasets ==
    {Dataset(cm, gm, ny) : cm \in Co2Motifs, gm \in GdpMotifs, ny \in YearCounts}
    \cup {Dataset(cm, gm, ny) :
              cm \in LongCo2Motifs, gm \in LongGdpMotifs, ny \in LongYearCounts}
    \cup {ScenarioDataset}
    \cup {GapDataset(kind) : kind \in GapKinds}

(***************************************************************************)
(* The input space of the overview sessions: eleven countries over a few   *)
(* years, with an events file and the two World Bank files.  The World     *)
(* Bank files spell some countries differently and end in an empty column  *)
(* without a year label.                                                   *)
(***************************************************************************)
OvCountries ==
    <<"China", "United States", "India", "Russia", "Japan", "Germany",
      "South Korea", "Iran", "Saudi Arabia", "Canada", "Brazil">>
WbCountries ==
    <<"China", "United States", "India", "Russian Federation", "Japan",
      "Germany", "Korea, Rep.", "Iran, Islamic Rep.", "Saudi Arabia",
      "Canada", "Brazil">>

IndexOf(s, x) == CHOOSE i \in 1..Len(s) : s[i] = x

\* the year columns: every year, or every year but the last but one
OvYears == AsList([i \in 1..MaxOverviewYears |-> YearMin + i - 1])
OvGapYears ==
    SelectSeq(OvYears, LAMBDA y : y # YearMin + MaxOverviewYears - 2)
OvYearLists == {OvYears, OvGapYears}

\* yearly totals: a rise from 10 to 12, zero totals, missing cells
OvTotalsMotifs == {<<10, 12, 0>>, <<0, 0, 6>>, <<NaN, 3, 4>>, <<8, 8, 8>>}
\* yearly per-capita values with equal and with missing cells
OvCapitaMotif(years) ==
    IF years = OvYears THEN <<3, 7, 3, 5>> ELSE <<3, NaN, 7, 3, 5>>

\* row id takes the motif from its position in the file on
OvCell(ids, motif) ==
    [id \in {ids[i] : i \in 1..Len(ids)} |->
        [y \in YearMin..(YearMin + MaxOverviewYears) |->
            MotifAt(motif, IndexOf(ids, id) - 1 + y - YearMin)]]

\* the label of the empty last column of a World Bank file
Unnamed == <<"U", "n", "n", "a", "m", "e", "d">>

WithColumn(w, label, v) ==
    [ids |-> w.ids, columns |-> Append(w.columns, label),
     val |-> [id \in DOMAIN w.val |->
                 [l \in DOMAIN w.val[id] \cup {label} |->
                     IF l = label THEN v ELSE w.val[id][l]]]]

\* the events file; one row has no year
OvEvents ==
    <<[Country |-> "Global", Year |-> LabelOf(YearMin), Event |-> "Earth Day"],
      [Country |-> "United States", Year |-> LabelOf(YearMin), Event |-> "Clean Air Act"],
      [Country |-> "World", Year |-> LabelOf(YearMin + 1), Event |-> "Gold Standard Ends"],
      [Country |-> "USA", Year |-> LabelOf(YearMin + 1), Event |-> "Wage Freeze"],
      [Country |-> "China", Year |-> LabelOf(YearMin + 2), Event |-> "Nixon Visit"],
      [Country |-> "Global", Year |-> <<"n", "/", "a">>, Event |-> "Undated"],
      [Country |-> "Russian Federation", Year |-> LabelOf(YearMin + 3), Event |-> "Grain Deal"],
      [Country |-> "Global", Year |-> LabelOf(YearMin + 3), Event |-> "Oil Crisis"],
      [Country |-> "Iran", Year |-> LabelOf(YearMin), Event |-> "Oil Contract"],
      [Country |-> "United States", Year |-> LabelOf(YearMin + 3), Event |-> "Endangered Species Act"]>>

OverviewDataset(tm, years) ==
    Load([totals |-> WideFile(OvCountries, years, OvCell(OvCountries, tm)),
          capita |-> WideFile(OvCountries, years,
                              OvCell(OvCountries, OvCapitaMotif(years))),
          sector |-> WideFile(SectorIds, years, OvCell(SectorIds, tm)),
          gdp    |-> WithColumn(WideFile(WbCountries, OvYears,
                                         OvCell(WbCountries, <<2, NaN, -1>>)),
                                Unnamed, NaN),
          events |-> OvEvents,
          land   |-> WithColumn(WideFile(WbCountries, OvYears,
                                         OvCell(WbCountries, <<9, 9, 9>>)),
                                Unnamed, NaN),
          missing |-> {}])

OverviewDatasets ==
    {OverviewDataset(tm, years) : tm \in OvTotalsMotifs, years \in OvYearLists}

(***************************************************************************)
(* State.                                                                  *)
(***************************************************************************)
VARIABLES
    \* the CSV files the session was started on
    files,
    \* the base tables, loaded once
    df_totals, df_capita, df_sector, df_gdp_growth, df_events, df_land_area,
    \* st.session_state: the widgets' values
    selected_countries,   \* key "country_ms"
    year_range,           \* the "Select period" slider
    ccf_country,          \* key "ccf_country"; "" while the selectbox is not shown
    ccf_lag,              \* key "ccf_lag"; 0 while the slider is not shown
    show_events,          \* key "evt_global"
    evt_cats,             \* key "evt_cats_global", as a set; {} while not shown
    preset_key,           \* key "preset_key"
    \* what the last run of the script computed and showed
    rendered,             \* the messages and charts on the page
    df_t_filtered, df_c_filtered, df_s_filtered,
    analysis_country,
    merged_ccf,
    lag_slider,           \* <<>> or <<[min_value, max_value, value, max_lag]>>
    ccf_subset,           \* 0-based, as the Python list
    peak,                 \* <<>> or <<[peak_idx, peak_lag, peak_corr]>>
    interp,               \* <<>> or <<the text of st.info>>
    latest_year,          \* 0 when the run stopped before the filters
    kpi,                  \* <<>> or <<the KPI row>>
    fig_trend,            \* the event lines and annotations of the trend chart
    df_tree,              \* the treemap's table
    df_race               \* the race chart's table

base   == <<files, df_totals, df_capita, df_sector, df_gdp_growth,
            df_events, df_land_area>>
widget == <<selected_countries, year_range, ccf_country, ccf_lag,
            show_events, evt_cats, preset_key>>
page   == <<rendered, df_t_filtered, df_c_filtered, df_s_filtered,
            analysis_country, merged_ccf, lag_slider, ccf_subset, peak, interp,
            latest_year, kpi, fig_trend, df_tree, df_race>>
vars   == <<base, widget, page>>

(***************************************************************************)
(* The widgets as Streamlit evaluates them.                                *)
(***************************************************************************)
min_y(totals) == CHOOSE y \in {totals[i].Year : i \in 1..Len(totals)} :
                    \A i \in 1..Len(totals) : y <= totals[i].Year
max_y(totals) == CHOOSE y \in {totals[i].Year : i \in 1..Len(totals)} :
                    \A i \in 1..Len(totals) : y >= totals[i].Year

\* sorted(df_totals["Country"].unique()), as a set
available_countries(totals) == {totals[i].Country : i \in 1..Len(totals)}

\* the default of the multiselect on the first render
initial_default(totals) ==
    SelectSeq(<<"United States", "China", "India">>,
              LAMBDA c : c \in available_countries(totals))

\* the preset groups, in the order of the dict literal
COUNTRY_PRESETS ==
    <<<<"Custom", <<>>>>,
      <<"G7", <<"United States", "United Kingdom", "France and Monaco",
                "Germany", "Japan", "Canada",
                "Italy, San Marino and the Holy See">>>>,
      <<"BRICS", <<"Brazil", "Russia", "India", "China", "South Africa">>>>,
      <<"EU-27", <<"Germany", "France and Monaco",
                   "Italy, San Marino and the Holy See", "Spain and Andorra",
                   "Netherlands", "Belgium", "Austria", "Poland", "Sweden",
                   "Denmark", "Finland", "Ireland", "Portugal", "Greece",
                   "Czechia", "Romania", "Hungary", "Slovakia", "Bulgaria",
                   "Croatia", "Lithuania", "Slovenia", "Latvia", "Estonia",
                   "Luxembourg", "Cyprus", "Malta">>>>,
      <<"Top 10 Emitters", <<"China", "United States", "India", "Russia",
                             "Japan", "Germany", "South Korea", "Iran",
                             "Saudi Arabia", "Canada">>>>,
      <<"Top 5 Per Capita", <<"Qatar", "Kuwait", "United Arab Emirates",
                              "Bahrain", "Brunei">>>>>>

\* list(COUNTRY_PRESETS.keys()): the options of "Choose a Group"
preset_options == {COUNTRY_PRESETS[i][1] : i \in 1..Len(COUNTRY_PRESETS)}

\* COUNTRY_PRESETS[choice]
preset_of(choice) ==
    COUNTRY_PRESETS[CHOOSE i \in 1..Len(COUNTRY_PRESETS) :
                        COUNTRY_PRESETS[i][1] = choice][2]

\* variant: the group is added to the selection
on_preset_change_Extend(choice, country_ms, available) ==
    IF choice # "Custom"
    THEN country_ms \o SelectSeq(preset_of(choice),
                                 LAMBDA c : c \in available /\ ~InSeq(c, country_ms))
    ELSE country_ms

\* variant: the group is taken as it is listed
on_preset_change_Unfiltered(choice, country_ms, available) ==
    IF choice # "Custom" THEN preset_of(choice) ELSE country_ms

\* _on_preset_change: the value of st.session_state["country_ms"] after the
\* callback of the preset selectbox, from its value before
on_preset_change(choice, country_ms, available) ==
    IF choice # "Custom"
    THEN SelectSeq(preset_of(choice), LAMBDA c : c \in available)
    ELSE country_ms

\* the country picker of the analysis: skipped for a single country; else
\* the selectbox returns the stored choice if it is an option, else the
\* first option, and None when it has no option
analysis_country_of(selected, stored) ==
    IF Len(selected) = 1 THEN selected[1]
    ELSE IF InSeq(stored, selected) THEN stored
    ELSE IF selected = <<>> THEN "" ELSE selected[1]

\* st.slider("Max Lag (years)", 1, max_possible_lag, min(5, max_possible_lag)):
\* the stored value if it lies on the slider, else the default
max_lag_of(n, stored) ==
    IF 1 <= stored /\ stored <= max_possible_lag_of(n)
    THEN stored ELSE default_lag_of(n)

(***************************************************************************)
(* The cross-correlation section of tab 2.                                 *)
(***************************************************************************)
\* merged_ccf["GDP Growth (annual %)"].values
gdp_series_of(merged) == AsList([i \in 1..Len(merged) |-> merged[i].GDP_Growth])
\* merged_ccf["CO2_YoY_Change"].values
co2_series_of(merged) == AsList([i \in 1..Len(merged) |-> merged[i].CO2_YoY_Change])

\* the try block: ccf_pos[lag] raises IndexError outside the array, and
\* nothing else in the block raises
ccf_raises(n, max_lag) == max_lag > n - 1

ccf_section(totals, gdp, country, stored_lag) ==
    LET merged     == merged_ccf_of(totals, gdp, country)
        n          == Len(merged)
        max_lag    == max_lag_of(n, stored_lag)
        gdp_series == gdp_series_of(merged)
        co2_series == co2_series_of(merged)
        subset     == ccf_subset_of(co2_series, gdp_series, max_lag)
        peak_idx   == argmax_abs(subset)
        peak_lag   == lags_of(max_lag)[peak_idx]
        none       == [rendered |-> {}, merged_ccf |-> merged,
                       lag_slider |-> <<>>, ccf_subset |-> <<>>,
                       peak |-> <<>>, interp |-> <<>>, ccf_lag |-> 0]
        slider     == <<[min_value |-> 1, max_value |-> max_possible_lag_of(n),
                         value |-> default_lag_of(n), max_lag |-> max_lag]>>
    IN  IF insufficient(merged)
        THEN [none EXCEPT !.rendered = {"warning: Insufficient data"}]
        ELSE IF ccf_raises(n, max_lag)
        THEN [none EXCEPT !.rendered = {"fig_ts", "error: Cross-correlation error"},
                          !.lag_slider = slider, !.ccf_lag = max_lag]
        ELSE [none EXCEPT !.rendered = {"fig_ts", "fig_ccf", "info: interp"},
                          !.lag_slider = slider, !.ccf_lag = max_lag,
                          !.ccf_subset = subset,
                          !.peak = <<[peak_idx |-> peak_idx, peak_lag |-> peak_lag,
                                      peak_corr |-> subset[peak_idx]]>>,
                          !.interp = <<interp_of(peak_lag)>>]

(***************************************************************************)
(* One run of the script on the widgets' values.                           *)
(***************************************************************************)
\* tab 1 and the race chart, after the filters
overview_section(df_t, df_c, events, land, selected, yr, show, cats) ==
    LET latest == latest_year_of(df_t, yr)
        tree   == df_tree_of(df_t, land, selected, latest)
    IN  [rendered |-> IF tree = <<>>
                      THEN {"info: No matching land-area data"}
                      ELSE {"fig_treemap"},
         latest_year |-> latest,
         kpi |-> <<kpi_of(df_t, latest)>>,
         fig_trend |-> IF show
                       THEN add_events_to_fig(EmptyFig, events_sub_of(events, cats),
                                              selected, yr)
                       ELSE EmptyFig,
         df_tree |-> tree,
         df_race |-> df_race_of(df_c)]

\* a run ended by st.stop() right after showing message: no table is
\* filtered, nothing else is on the page and the base tables are as given
stopped_page(message, totals, capita, sector, gdp, events, land) ==
    [rendered |-> {message},
     df_totals |-> totals, df_capita |-> capita, df_sector |-> sector,
     df_gdp_growth |-> gdp, df_events |-> events, df_land_area |-> land,
     df_t_filtered |-> <<>>, df_c_filtered |-> <<>>, df_s_filtered |-> <<>>,
     analysis_country |-> "", merged_ccf |-> <<>>, lag_slider |-> <<>>,
     ccf_subset |-> <<>>, peak |-> <<>>, interp |-> <<>>,
     ccf_country |-> "", ccf_lag |-> 0,
     latest_year |-> 0, kpi |-> <<>>, fig_trend |-> EmptyFig,
     df_tree |-> <<>>, df_race |-> <<>>]

\* variant: the guard tests for None
stop_guard_IsNone(selected) == FALSE

\* `if not selected_countries`
stop_guard(selected) == selected = <<>>

\* variant: the derived table is stored under the name of the base table
base_after_Rebound(table, derived) == derived

\* a base table after the run that built derived from it: the masks, the
\* merges, sort_values, dropna and .copy() all return new frames, every
\* column the run adds (CO2_YoY_Change, CO2_log, Value) is added to such a
\* frame, and the names of the base tables are bound by the loaders only
base_after(table, derived) == table

script(totals, capita, sector, gdp, events, land, selected, yr, stored_country, stored_lag, show, cats) ==
    IF stop_guard(selected)
    THEN \* st.warning(...); st.stop()
         stopped_page("warning: Please select at least one country",
                      totals, capita, sector, gdp, events, land)
    ELSE LET country == analysis_country_of(selected, stored_country)
             sec     == ccf_section(totals, gdp, country, stored_lag)
             df_t    == FilterTable(totals, selected, yr)
             df_c    == FilterTable(capita, selected, yr)
             df_s    == FilterTable(sector, selected, yr)
             ov      == overview_section(df_t, df_c, events, land,
                                         selected, yr, show, cats)
         IN  [rendered |-> {"tabs"} \cup sec.rendered \cup ov.rendered,
              df_totals |-> base_after(totals, df_t),
              df_capita |-> base_after(capita, df_c),
              df_sector |-> base_after(sector, df_s),
              df_gdp_growth |-> base_after(gdp, gdp_country(gdp, country)),
              df_events |-> base_after(events, events_sub_of(events, cats)),
              df_land_area |-> base_after(land, SelectSeq(land,
                                  LAMBDA r : r.Year = ov.latest_year)),
              df_t_filtered |-> df_t,
              df_c_filtered |-> df_c,
              df_s_filtered |-> df_s,
              analysis_country |-> country,
              merged_ccf |-> sec.merged_ccf, lag_slider |-> sec.lag_slider,
              ccf_subset |-> sec.ccf_subset, peak |-> sec.peak,
              interp |-> sec.interp,
              ccf_country |-> IF Len(selected) = 1 THEN "" ELSE country,
              ccf_lag |-> sec.ccf_lag,
              latest_year |-> ov.latest_year, kpi |-> ov.kpi,
              fig_trend |-> ov.fig_trend,
              df_tree |-> ov.df_tree, df_race |-> ov.df_race]

\* the session after the first run on the set of files ds
\* when a file is missing the except branch shows st.error and stops the
\* run before the sidebar: no widget exists
FirstRun(ds) ==
    \E out \in {IF ds.failed
                THEN stopped_page("error: Data file not found", ds.totals,
                                  ds.capita, ds.sector, ds.gdp, ds.events, ds.land)
                ELSE script(ds.totals, ds.capita, ds.sector, ds.gdp, ds.events,
                            ds.land, initial_default(ds.totals),
                            <<YearMin, max_y(ds.totals)>>, "", 0, FALSE, {})} :
        /\ files = ds.files
        /\ df_totals = out.df_totals
        /\ df_capita = out.df_capita
        /\ df_sector = out.df_sector
        /\ df_gdp_growth = out.df_gdp_growth
        /\ df_events = out.df_events
        /\ df_land_area = out.df_land_area
        /\ selected_countries = IF ds.failed THEN <<>>
                                ELSE initial_default(ds.totals)
        /\ year_range = IF ds.failed THEN <<0, 0>>
                        ELSE <<YearMin, max_y(ds.totals)>>
        /\ ccf_country = out.ccf_country
        /\ ccf_lag = out.ccf_lag
        /\ show_events = FALSE
        /\ evt_cats = {}
        /\ preset_key = "Custom"
        /\ rendered = out.rendered
        /\ df_t_filtered = out.df_t_filtered
        /\ df_c_filtered = out.df_c_filtered
        /\ df_s_filtered = out.df_s_filtered
        /\ analysis_country = out.analysis_country
        /\ merged_ccf = out.merged_ccf
        /\ lag_slider = out.lag_slider
        /\ ccf_subset = out.ccf_subset
        /\ peak = out.peak
        /\ interp = out.interp
        /\ latest_year = out.latest_year
        /\ kpi = out.kpi
        /\ fig_trend = out.fig_trend
        /\ df_tree = out.df_tree
        /\ df_race = out.df_race

Init == \E ds \in Datasets : FirstRun(ds)

\* the sidebar and the tabs exist: the loaders succeeded
widgets_shown == "error: Data file not found" \notin rendered

\* a widget changed: the script runs again, top to bottom, on the cached
\* tables
RerunPreset(choice, selected, yr, stored_country, stored_lag, show, cats) ==
    \E out \in {script(df_totals, df_capita, df_sector, df_gdp_growth,
                        df_events, df_land_area,
                        selected, yr, stored_country, stored_lag, show, cats)} :
        /\ widgets_shown
        /\ files' = files
        /\ df_totals' = out.df_totals
        /\ df_capita' = out.df_capita
        /\ df_sector' = out.df_sector
        /\ df_gdp_growth' = out.df_gdp_growth
        /\ df_events' = out.df_events
        /\ df_land_area' = out.df_land_area
        /\ preset_key' = choice
        /\ selected_countries' = selected
        /\ year_range' = yr
        /\ ccf_country' = out.ccf_country
        /\ ccf_lag' = out.ccf_lag
        /\ show_events' = show
        /\ evt_cats' = cats
        /\ rendered' = out.rendered
        /\ df_t_filtered' = out.df_t_filtered
        /\ df_c_filtered' = out.df_c_filtered
        /\ df_s_filtered' = out.df_s_filtered
        /\ analysis_country' = out.analysis_country
        /\ merged_ccf' = out.merged_ccf
        /\ lag_slider' = out.lag_slider
        /\ ccf_subset' = out.ccf_subset
        /\ peak' = out.peak
        /\ interp' = out.interp
        /\ latest_year' = out.latest_year
        /\ kpi' = out.kpi
        /\ fig_trend' = out.fig_trend
        /\ df_tree' = out.df_tree
        /\ df_race' = out.df_race

\* a change of a widget other than the preset selectbox
RerunWith(selected, yr, stored_country, stored_lag, show, cats) ==
    RerunPreset(preset_key, selected, yr, stored_country, stored_lag, show, cats)

\* a change of a widget other than the event controls
Rerun(selected, yr, stored_country, stored_lag) ==
    RerunWith(selected, yr, stored_country, stored_lag, show_events, evt_cats)

\* the selections made in the multiselect
Selections == {<<>>, <<US>>, <<CN>>, <<US, CN>>}

\* the positions the two handles of the period slider are moved to
LoMarks == {min_y(df_totals), min_y(df_totals) + 1}
HiMarks == {min_y(df_totals) + 1, max_y(df_totals)}

\* the positions of the lag slider
LagMarks ==
    IF lag_slider = <<>> THEN {}
    ELSE lag_slider[1].min_value..lag_slider[1].max_value

SelectCountries(sel) ==
    /\ sel # selected_countries
    /\ \A i \in 1..Len(sel) : sel[i] \in available_countries(df_totals)
    /\ Rerun(sel, year_range, ccf_country, ccf_lag)

SetYearRange(lo, hi) ==
    /\ lo <= hi
    /\ <<lo, hi>> # year_range
    /\ Rerun(selected_countries, <<lo, hi>>, ccf_country, ccf_lag)

\* the "Select Country for Analysis" selectbox, shown for 2+ countries
PickCcfCountry(c) ==
    /\ Len(selected_countries) > 1
    /\ InSeq(c, selected_countries)
    /\ c # ccf_country
    /\ Rerun(selected_countries, year_range, c, ccf_lag)

\* the "Max Lag (years)" slider, shown when there is enough data
SetCcfLag(lag) ==
    /\ lag_slider # <<>>
    /\ lag_slider[1].min_value <= lag /\ lag <= lag_slider[1].max_value
    /\ lag # ccf_lag
    /\ Rerun(selected_countries, year_range, ccf_country, lag)

Next ==
    \/ \E sel \in Selections : SelectCountries(sel)
    \/ \E lo \in LoMarks, hi \in HiMarks : SetYearRange(lo, hi)
    \/ \E c \in available_countries(df_totals) : PickCcfCountry(c)
    \/ \E lag \in LagMarks : SetCcfLag(lag)

Spec == Init /\ [][Next]_vars

(***************************************************************************)
(* The overview sessions: the user works the sidebar (countries, period,   *)
(* historic events) on the files of OverviewDatasets.                      *)
(***************************************************************************)
OverviewInit == \E ds \in OverviewDatasets : FirstRun(ds)

\* the selections made in the multiselect
OverviewSelections ==
    {<<>>, <<"China">>, <<"United States", "China", "India">>,
     <<"Iran", "Russia", "United States">>,
     <<"Brazil", "Canada", "China", "Germany", "India", "Iran", "Japan",
       "Russia", "Saudi Arabia", "South Korea", "United States">>}

\* the origins picked in "Filter by origin"
OriginChoices ==
    {{}, {"Global"}, {"Global", "World"}, {"United States", "China"},
     categories_of(df_events)}

\* the "Show Historic Events" checkbox; the origin filter starts from its
\* default, all origins, each time it is shown
ToggleEvents ==
    RerunWith(selected_countries, year_range, ccf_country, ccf_lag,
              ~show_events,
              IF show_events THEN {} ELSE categories_of(df_events))

\* the "Filter by origin" multiselect, shown while events are on
SetEvtCats(cats) ==
    /\ show_events
    /\ cats \subseteq categories_of(df_events)
    /\ cats # evt_cats
    /\ RerunWith(selected_countries, year_range, ccf_country, ccf_lag,
                 TRUE, cats)

OverviewNext ==
    \/ \E sel \in OverviewSelections : SelectCountries(sel)
    \/ \E lo \in min_y(df_totals)..max_y(df_totals),
          hi \in min_y(df_totals)..max_y(df_totals) : SetYearRange(lo, hi)
    \/ ToggleEvents
    \/ \E cats \in OriginChoices : SetEvtCats(cats)

OverviewSpec == OverviewInit /\ [][OverviewNext]_vars

(***************************************************************************)
(* The sidebar sessions: the user works the preset selectbox and the       *)
(* country multiselect.  The files are those of an overview session, or    *)
(* the totals file has an unlabelled last column, or lists two countries   *)
(* only, or one of the files does not exist.                               *)
(***************************************************************************)
MissingChoices == {{"totals"}, {"events"}, {"land"}, {"gdp"}, {"land", "gdp"}}

SidebarFiles(tm, years) == OverviewDataset(tm, years).files

SidebarDatasets ==
    {OverviewDataset(tm, OvYears) : tm \in OvTotalsMotifs}
    \cup {Load([SidebarFiles(tm, OvYears) EXCEPT
                    !.totals = WithColumn(@, Unnamed, NaN)]) :
              tm \in OvTotalsMotifs}
    \cup {Load([SidebarFiles(tm, OvGapYears) EXCEPT !.missing = m]) :
              tm \in OvTotalsMotifs, m \in MissingChoices}
    \cup {Dataset(cm, <<25, -20, 0>>, 10) : cm \in Co2Motifs}

SidebarInit == \E ds \in SidebarDatasets : FirstRun(ds)

\* the selections made in the multiselect
SidebarSelections ==
    OverviewSelections \cup Selections
    \cup {<<"Germany", "Brazil">>, <<"India", "Japan", "Canada", "Iran">>}

\* the "Choose a Group" selectbox: its callback runs first, then the script
ChangePreset(choice) ==
    /\ choice # preset_key
    /\ RerunPreset(choice,
                   on_preset_change(choice, selected_countries,
                                    available_countries(df_totals)),
                   year_range, ccf_country, ccf_lag, show_events, evt_cats)

SidebarNext ==
    \/ \E choice \in preset_options : ChangePreset(choice)
    \/ \E sel \in SidebarSelections : SelectCountries(sel)

SidebarSpec == SidebarInit /\ [][SidebarNext]_vars

(***************************************************************************)
(* Properties.  Shorthands over the page of the last run.                  *)
(***************************************************************************)
\* the cross-correlation section was reached by the last run
SectionRun == "tabs" \in rendered
\* the last run computed the correlations and the peak
PeakShown == peak # <<>>
ChosenLag == lag_slider[1].max_lag
co2_now == [i \in 1..Len(merged_ccf) |-> merged_ccf[i].CO2_YoY_Change]
gdp_now == [i \in 1..Len(merged_ccf) |-> merged_ccf[i].GDP_Growth]
LagAt(i) == i - ChosenLag
Defined == \A i \in DOMAIN ccf_subset : ~ccf_subset[i].nan
AbsNum(i) == Abs(ccf_subset[i].num)

\* C1: with fewer than 10 rows in the joined, nan-free table the section
\* shows the insufficient-data warning and no correlation values, peak or
\* interpretation; correlation values exist only with at least 10 rows
C1_InsufficientData ==
    SectionRun =>
        /\ Len(merged_ccf) < 10 =>
              /\ "warning: Insufficient data" \in rendered
              /\ ccf_subset = <<>> /\ peak = <<>> /\ interp = <<>>
              /\ "fig_ccf" \notin rendered /\ "info: interp" \notin rendered
        /\ ccf_subset # <<>> => Len(merged_ccf) >= 10

C1_Witness ==
    /\ SectionRun /\ Len(merged_ccf) = 9
    /\ "warning: Insufficient data" \in rendered

\* C2: the peak lag lies in [-L, +L], no computed value has a larger
\* absolute value than the one at the peak lag, and the reported
\* correlation is the signed value computed at that lag
C2_PeakIsMaxAbs ==
    PeakShown =>
        /\ DOMAIN ccf_subset = 0..(2 * ChosenLag)
        /\ peak[1].peak_lag \in (-ChosenLag)..ChosenLag
        /\ peak[1].peak_corr = ccf_subset[peak[1].peak_lag + ChosenLag]
        /\ Defined =>
              \A i \in DOMAIN ccf_subset :
                  /\ AbsNum(i) <= Abs(peak[1].peak_corr.num)
                  /\ ccf_subset[i].d1 = peak[1].peak_corr.d1
                  /\ ccf_subset[i].d2 = peak[1].peak_corr.d2

\* a negative correlation wins over positive ones, away from lag 0
C2_Witness ==
    /\ PeakShown /\ Defined
    /\ peak[1].peak_corr.num < 0 /\ peak[1].peak_lag > 0
    /\ \E i \in DOMAIN ccf_subset : ccf_subset[i].num > 0

\* the lags sharing the maximum absolute correlation
TiedLags ==
    {LagAt(i) : i \in {j \in DOMAIN ccf_subset :
                          AbsNum(j) = Abs(peak[1].peak_corr.num)}}

\* C3 as stated: among the lags that share the maximum absolute
\* correlation the reported one has the smallest absolute lag
C3_SmallestAbsLag ==
    (PeakShown /\ Defined) =>
        \A k \in TiedLags : Abs(peak[1].peak_lag) <= Abs(k)

\* C3 as amended: among the lags that share the maximum absolute
\* correlation the reported one is the most negative
C3_MostNegativeLag ==
    (PeakShown /\ Defined) =>
        \A k \in TiedLags : peak[1].peak_lag <= k

C3_Witness ==
    /\ PeakShown /\ Defined
    /\ \E k \in TiedLags : Abs(k) < Abs(peak[1].peak_lag)

\* the sum the claim describes for lag k: for k >= 0 the CO2 change of
\* row t times the GDP growth of row t + k, for k < 0 the GDP growth of
\* row t times the CO2 change of row t + |k|
ClaimedNum(k) ==
    IF k >= 0 THEN CrossSum(Dev(gdp_now), Dev(co2_now), k)
    ELSE CrossSum(Dev(co2_now), Dev(gdp_now), Abs(k))

\* C4: at a positive lag k the CO2 change of year t is paired with the GDP
\* growth of year t + k, at a negative lag the GDP growth of year t with
\* the CO2 change of year t + |k|
C4_LagDirection ==
    (PeakShown /\ Defined) =>
        \A i \in DOMAIN ccf_subset : ccf_subset[i].num = ClaimedNum(LagAt(i))

\* C5: exactly one interpretation is shown for a computed peak, chosen by
\* the sign of the peak lag alone
C5_InterpBySign ==
    /\ PeakShown =>
          /\ "info: interp" \in rendered
          /\ Len(interp) = 1
          /\ interp[1].years = Abs(peak[1].peak_lag)
          /\ peak[1].peak_lag = 0 => interp[1].text = "synchronous"
          /\ peak[1].peak_lag < 0 => interp[1].text = "GDP growth leads CO2"
          /\ peak[1].peak_lag > 0 => interp[1].text = "CO2 changes lead GDP"
    /\ ~PeakShown => interp = <<>>

C5_Witness ==
    /\ PeakShown /\ Defined /\ peak[1].peak_lag > 1
    /\ interp = <<[text |-> "CO2 changes lead GDP", years |-> peak[1].peak_lag]>>

\* C6: when the correlation is computed over n >= 10 rows the chosen lag
\* is between 1 and 10 with 3 * L <= n, and the slider's default
\* min(5, min(10, n div 3)) is a position of the slider
C6_LagRange ==
    lag_slider # <<>> =>
        LET n == Len(merged_ccf) IN
        /\ n >= 10
        /\ ChosenLag \in 1..10
        /\ 3 * ChosenLag <= n
        /\ lag_slider[1].value = Min(5, Min(10, n \div 3))
        /\ lag_slider[1].min_value = 1
        /\ lag_slider[1].min_value <= lag_slider[1].value
        /\ lag_slider[1].value <= lag_slider[1].max_value
        /\ 3 * lag_slider[1].max_value <= n
        /\ lag_slider[1].max_value <= 10

\* the cap of 10 binds and the largest lag is chosen
C6_Witness ==
    /\ lag_slider # <<>> /\ Len(merged_ccf) >= 33
    /\ ChosenLag = 10 /\ lag_slider[1].value = 5

(***************************************************************************)
(* Exact tests on a correlation num / sqrt(d1 * d2), without forming the   *)
(* products.                                                               *)
(***************************************************************************)
RECURSIVE Gcd(_, _)
Gcd(a, b) == IF b = 0 THEN a ELSE Gcd(b, a % b)

\* a/b = c/d for positive a, b, c, d
EqFrac(a, b, c, d) ==
    a \div Gcd(a, b) = c \div Gcd(c, d) /\ b \div Gcd(a, b) = d \div Gcd(c, d)

\* a/b <= c/d for positive a, b, c, d, by continued fractions
RECURSIVE LeqFrac(_, _, _, _)
LeqFrac(a, b, c, d) ==
    IF a \div b # c \div d THEN a \div b < c \div d
    ELSE IF a % b = 0 THEN TRUE
    ELSE IF c % d = 0 THEN FALSE
    ELSE LeqFrac(d, c % d, b, a % b)

\* r = 1:  num > 0 and num^2 = d1 * d2
IsOne(r) == ~r.nan /\ r.num > 0 /\ EqFrac(r.num, r.d1, r.d2, r.num)
\* |r| <= 1:  num^2 <= d1 * d2
AbsAtMostOne(r) ==
    ~r.nan /\ (r.num = 0 \/ LeqFrac(Abs(r.num), r.d1, r.d2, Abs(r.num)))

NonConstant(s) == \E i, j \in 1..Len(s) : s[i] # s[j]

\* C7: when the CO2-change series and the GDP-growth series are the same
\* non-constant series, the correlation at lag 0 is 1, the absolute
\* correlation at every lag is at most 1, and the peak lag is 0
C7_IdenticalSeries ==
    (lag_slider # <<>> /\ co2_now = gdp_now /\ NonConstant(co2_now)) =>
        /\ PeakShown
        /\ IsOne(ccf_subset[ChosenLag])
        /\ \A i \in DOMAIN ccf_subset : AbsAtMostOne(ccf_subset[i])
        /\ peak[1].peak_lag = 0

C7_Witness ==
    /\ lag_slider # <<>> /\ co2_now = gdp_now /\ NonConstant(co2_now)
    /\ ChosenLag >= 3 /\ peak[1].peak_lag = 0

\* the analysed country has the series [2, 3, 1, 4] in both columns
ScenarioSeries ==
    SectionRun /\ co2_now = <<2, 3, 1, 4>> /\ gdp_now = <<2, 3, 1, 4>>

\* C8 as stated: both series [2, 3, 1, 4] over the same 4 years give a
\* peak at lag 0 with correlation 1
C8_ScenarioPeak ==
    ScenarioSeries =>
        PeakShown /\ peak[1].peak_lag = 0 /\ IsOne(peak[1].peak_corr)

\* C8 as amended: both series [2, 3, 1, 4] over the same 4 years give the
\* insufficient-data warning and no peak, 4 being fewer than 10
C8_ScenarioInsufficient ==
    ScenarioSeries =>
        /\ "warning: Insufficient data" \in rendered
        /\ peak = <<>> /\ ccf_subset = <<>> /\ interp = <<>>

C8_Witness ==
    ScenarioSeries /\ "warning: Insufficient data" \in rendered

\* the correlation of the aligned input is undefined
Undefined ==
    \/ ~NonConstant(co2_now)
    \/ ~NonConstant(gdp_now)
    \/ \E i \in 1..Len(merged_ccf) : co2_now[i] = PosInf

\* C9: when the correlation is undefined (a constant series, an infinite
\* percent change) the section ends in the cross-correlation error and
\* shows no peak and no interpretation
C9_UndefinedIsError ==
    (lag_slider # <<>> /\ Undefined) =>
        /\ "error: Cross-correlation error" \in rendered
        /\ peak = <<>> /\ interp = <<>>
        /\ "info: interp" \notin rendered

(***************************************************************************)
(* Filtering.                                                              *)
(***************************************************************************)
Selected(r) ==
    /\ r.Country \in {selected_countries[i] : i \in 1..Len(selected_countries)}
    /\ year_range[1] <= r.Year /\ r.Year <= year_range[2]

\* out lists exactly the selected rows of df, each once, in the order of
\* df: the k-th selected row of df is the k-th row of out
ListsSelected(df, out) ==
    LET idx == {i \in 1..Len(df) : Selected(df[i])}
    IN  /\ Len(out) = Cardinality(idx)
        /\ \A i \in idx : out[Cardinality({k \in idx : k <= i})] = df[i]

ExampleTotals ==
    <<[Country |-> "USA", Year |-> 2000, CO2 |-> 10],
      [Country |-> "CHN", Year |-> 2000, CO2 |-> 20],
      [Country |-> "USA", Year |-> 2001, CO2 |-> 12],
      [Country |-> "CHN", Year |-> 2001, CO2 |-> 25]>>
ExampleFiltered == FilterTable(ExampleTotals, <<"USA">>, <<2000, 2001>>)

\* C10: each filtered table holds exactly the rows of its base table whose
\* country is selected and whose Year lies in the range, both ends
\* included, each once and in base-table order; the example of USA over
\* (2000, 2001) gives 2 rows with CO2 summing to 22
C10_FilterExact ==
    /\ SectionRun =>
          /\ ListsSelected(df_totals, df_t_filtered)
          /\ ListsSelected(df_capita, df_c_filtered)
          /\ ListsSelected(df_sector, df_s_filtered)
    /\ Len(ExampleFiltered) = 2
    /\ ExampleFiltered[1].CO2 + ExampleFiltered[2].CO2 = 22
    /\ \A i \in 1..2 : ExampleFiltered[i].Country = "USA"

\* one country of two, over a range that ends on the first kept year
C10_Witness ==
    /\ SectionRun /\ Len(selected_countries) = 1
    /\ year_range[1] > YearMin /\ year_range[2] = year_range[1]
    /\ Len(df_t_filtered) = 1 /\ Len(df_s_filtered) = 2
    /\ Len(df_totals) > 2 * Len(df_t_filtered)

(***************************************************************************)
(* Properties of the overview: filters, KPI row, events, race, loaders.    *)
(***************************************************************************)
\* the events the origin filter lets through that lie in the period
InPeriod(e) == year_range[1] <= e.Year /\ e.Year <= year_range[2]
IsGlobal(e) == e.Country \in {"Global", "World"}
GlobalInPeriod ==
    {i \in 1..Len(df_events) : IsGlobal(df_events[i]) /\ InPeriod(df_events[i])}

\* C11: a filter by the empty country set keeps no row of the totals, the
\* per-capita or the sector table and no country-specific event, the origin
\* filter with no origin leaves the trend chart without events, and a run
\* without countries shows its warning and no error
C11_EmptyCountrySet ==
    /\ FilterTable(df_totals, <<>>, year_range) = <<>>
    /\ FilterTable(df_capita, <<>>, year_range) = <<>>
    /\ FilterTable(df_sector, <<>>, year_range) = <<>>
    /\ LET kept == filter_events(df_events, <<>>, year_range)
       IN  \A i \in 1..Len(kept) : IsGlobal(kept[i])
    /\ (show_events /\ evt_cats = {}) => fig_trend = EmptyFig
    /\ selected_countries = <<>> =>
          /\ rendered = {"warning: Please select at least one country"}
          /\ df_t_filtered = <<>> /\ df_c_filtered = <<>> /\ df_s_filtered = <<>>

\* events are on with every origin removed, over a period with global
\* events and rows of the selected countries
C11_Witness ==
    /\ SectionRun /\ show_events /\ evt_cats = {}
    /\ GlobalInPeriod # {}
    /\ df_t_filtered # <<>>
    /\ fig_trend.annotations = <<>>

\* the CO2 of the filtered rows of one year, missing cells left out
RECURSIVE TotalTo(_, _)
TotalTo(year, i) ==
    IF i = 0 THEN 0
    ELSE TotalTo(year, i - 1)
         + (IF df_t_filtered[i].Year = year /\ df_t_filtered[i].CO2 # NaN
            THEN df_t_filtered[i].CO2 ELSE 0)
TotalOf(year) == TotalTo(year, Len(df_t_filtered))
HasYear(year) == \E i \in 1..Len(df_t_filtered) : df_t_filtered[i].Year = year

KpiShown == SectionRun /\ kpi # <<>>

\* C12: the year-over-year KPI is (latest_total - prev_total) / prev_total
\* * 100 with prev_total the summed CO2 of the filtered rows of
\* latest_year - 1, it is 0 when prev_total is 0 or no filtered row has that
\* year, its divisor is never 0, and 10 in 2000 with 12 in 2001 gives 20
C12_YearOverYear ==
    /\ KpiShown =>
          LET yoy  == kpi[1].yoy
              prev == TotalOf(latest_year - 1)
              last == TotalOf(latest_year)
          IN  /\ yoy.den # 0
              /\ prev = 0 => yoy.num = 0
              /\ ~HasYear(latest_year - 1) => yoy.num = 0
              /\ prev # 0 => yoy.num * prev = (last - prev) * 100 * yoy.den
    /\ LET yoy == yoy_of(year_total(ExampleFiltered, 2001),
                         year_total(ExampleFiltered, 2000))
       IN  yoy.den # 0 /\ yoy.num = 20 * yoy.den

\* one country that goes from 10 to 12 in the last year of the period
C12_Witness ==
    /\ KpiShown
    /\ TotalOf(latest_year - 1) = 10 /\ TotalOf(latest_year) = 12
    /\ kpi[1].yoy.num = 20 * kpi[1].yoy.den

\* C13: the latest year is the largest Year of the filtered totals, or the
\* upper end of the period when no row is left, and the latest total is
\* the summed CO2 of the filtered rows of that year
C13_LatestYear ==
    KpiShown =>
        /\ df_t_filtered # <<>> =>
              /\ HasYear(latest_year)
              /\ \A i \in 1..Len(df_t_filtered) : df_t_filtered[i].Year <= latest_year
        /\ df_t_filtered = <<>> => latest_year = year_range[2]
        /\ kpi[1].latest_total = TotalOf(latest_year)

\* the period ends on a year the files have no column for
C13_Witness ==
    /\ KpiShown /\ df_t_filtered # <<>>
    /\ latest_year < year_range[2]
    /\ kpi[1].latest_total > 0

\* the earliest Year of the filtered totals
EarliestYear ==
    CHOOSE y \in {df_t_filtered[i].Year : i \in 1..Len(df_t_filtered)} :
        \A i \in 1..Len(df_t_filtered) : y <= df_t_filtered[i].Year

\* C14: the CAGR is 0 when no row is left, when the earliest filtered year
\* is the latest year or when that year's summed CO2 is not positive;
\* otherwise it is (latest_total / start_total) ^ (1 / (latest_year -
\* start_year)) - 1; neither divisor is ever 0
C14_Cagr ==
    KpiShown =>
        LET cagr == kpi[1].cagr
        IN  /\ df_t_filtered = <<>> => cagr.zero
            /\ df_t_filtered # <<>> =>
                  IF TotalOf(EarliestYear) <= 0 \/ EarliestYear = latest_year
                  THEN cagr.zero
                  ELSE /\ ~cagr.zero
                       /\ cagr.ratio.num = TotalOf(latest_year)
                       /\ cagr.ratio.den = TotalOf(EarliestYear)
                       /\ cagr.years_diff = latest_year - EarliestYear
            /\ ~cagr.zero => cagr.ratio.den # 0 /\ cagr.years_diff # 0

\* growth over two or more years from a positive start
C14_Witness ==
    /\ KpiShown /\ ~kpi[1].cagr.zero
    /\ kpi[1].cagr.years_diff >= 2
    /\ kpi[1].cagr.ratio.num # kpi[1].cagr.ratio.den

\* positions in a table of the rows of one year
RowsOf(df, year) == {i \in 1..Len(df) : df[i].Year = year}
IsNumber(v) == v # NaN

\* C15: for every year the race table keeps at most 10 rows; all of the
\* year's rows when there are 10 or fewer; otherwise 10 of them, none of
\* the dropped rows having a strictly larger per-capita value than a kept
\* row; kept rows of one year with equal values are in their order of the
\* filtered table
C15_RaceTopTen ==
    SectionRun =>
        /\ \A k \in 1..Len(df_race) :
              \E i \in 1..Len(df_c_filtered) : df_c_filtered[i] = df_race[k]
        /\ \A year \in {df_c_filtered[i].Year : i \in 1..Len(df_c_filtered)} :
              LET rows    == RowsOf(df_c_filtered, year)
                  kept    == RowsOf(df_race, year)
                  dropped == {i \in rows :
                                 \A k \in kept : df_race[k] # df_c_filtered[i]}
              IN  /\ Cardinality(kept) <= 10
                  /\ Cardinality(rows) <= 10 =>
                        Cardinality(kept) = Cardinality(rows) /\ dropped = {}
                  /\ Cardinality(rows) > 10 =>
                        /\ Cardinality(kept) = 10
                        /\ Cardinality(dropped) = Cardinality(rows) - 10
                        /\ \A d \in dropped, k \in kept :
                              ~(/\ IsNumber(df_c_filtered[d].CO2_per_capita)
                                /\ IsNumber(df_race[k].CO2_per_capita)
                                /\ df_c_filtered[d].CO2_per_capita
                                       > df_race[k].CO2_per_capita)
                  /\ \A k1 \in kept, k2 \in kept :
                        (k1 < k2 /\ df_race[k1].CO2_per_capita
                                        = df_race[k2].CO2_per_capita) =>
                            \E i1 \in rows, i2 \in rows :
                                /\ i1 < i2
                                /\ df_c_filtered[i1] = df_race[k1]
                                /\ df_c_filtered[i2] = df_race[k2]

\* eleven countries: a year loses a row, and kept rows tie
C15_Witness ==
    /\ SectionRun
    /\ \E year \in {df_c_filtered[i].Year : i \in 1..Len(df_c_filtered)} :
          /\ Cardinality(RowsOf(df_c_filtered, year)) > 10
          /\ Cardinality(RowsOf(df_race, year)) = 10
          /\ \E k1 \in RowsOf(df_race, year), k2 \in RowsOf(df_race, year) :
                /\ k1 < k2
                /\ df_race[k1].CO2_per_capita = df_race[k2].CO2_per_capita
                /\ IsNumber(df_race[k1].CO2_per_capita)

\* the events behind the origin filter that the trend chart has to show:
\* in the period, and global or of a selected country
Matching ==
    {i \in 1..Len(df_events) :
        /\ df_events[i].Country \in evt_cats
        /\ InPeriod(df_events[i])
        /\ \/ IsGlobal(df_events[i])
           \/ InSeq(df_events[i].Country, selected_countries)}
EventOf(a) == [Country |-> a.hover_country, Year |-> a.x, Event |-> a.text]
EventRow(e) == [Country |-> e.Country, Year |-> e.Year, Event |-> e.Event]

ExampleEvents ==
    <<[Country |-> "Global", Year |-> 1990, Event |-> "global event"],
      [Country |-> "USA", Year |-> 1995, Event |-> "USA event"]>>

\* C16: the events laid over the trend chart are exactly the events of the
\* picked origins whose Year lies in the period, both ends included, and
\* that are global ('Global' or 'World') or of a selected country, in file
\* order; filter_events keeps every global event of the period whatever the
\* selection; one global event (1990) and one USA event (1995) filtered for
\* {CHN} over (1980, 2020) leave the global event only
C16_FilterEvents ==
    /\ (SectionRun /\ show_events) =>
          /\ Len(fig_trend.annotations) = Cardinality(Matching)
          /\ \A i \in Matching :
                EventOf(fig_trend.annotations[Cardinality({k \in Matching : k <= i})])
                    = EventRow(df_events[i])
    /\ \A sel \in OverviewSelections :
          LET kept == filter_events(df_events, sel, year_range)
          IN  \A i \in GlobalInPeriod : \E k \in 1..Len(kept) : kept[k] = df_events[i]
    /\ filter_events(ExampleEvents, <<"CHN">>, <<1980, 2020>>) = <<ExampleEvents[1]>>

\* shown: a global event and an event of a selected country; left out: an
\* event of a country that is not selected, and a global event outside the
\* period
C16_Witness ==
    /\ SectionRun /\ show_events
    /\ \E i \in Matching : IsGlobal(df_events[i])
    /\ \E i \in Matching : ~IsGlobal(df_events[i])
    /\ \E i \in 1..Len(df_events) :
          /\ df_events[i].Country \in evt_cats /\ InPeriod(df_events[i])
          /\ i \notin Matching
    /\ \E i \in 1..Len(df_events) :
          /\ IsGlobal(df_events[i]) /\ df_events[i].Country \in evt_cats
          /\ ~InPeriod(df_events[i])

\* C17: the trend chart gets one vertical line and one annotation per
\* filtered event, none when there is none; the i-th event, counted from 0,
\* sits at position i mod 5 of 0.95, 0.85, 0.75, 0.65, 0.55, so that five
\* events in a row have five different positions
C17_EventStagger ==
    LET ann == fig_trend.annotations
    IN  /\ Len(fig_trend.vlines) = Len(ann)
        /\ Len(ann) = IF SectionRun /\ show_events THEN Cardinality(Matching) ELSE 0
        /\ \A i \in 1..Len(ann) :
              /\ ann[i].y = <<95, 85, 75, 65, 55>>[((i - 1) % 5) + 1]
              /\ fig_trend.vlines[i].x = ann[i].x
        /\ \A i \in 1..Len(ann), j \in 1..Len(ann) :
              (i < j /\ j < i + 5) => ann[i].y # ann[j].y

\* more events than positions
C17_Witness ==
    /\ SectionRun /\ show_events
    /\ Len(fig_trend.annotations) > 5
    /\ fig_trend.annotations[6].y = fig_trend.annotations[1].y

NameMap(x) == MapGet(get_country_name_mapping, x)
IsoMap(x) == MapGet(get_country_iso_mapping, x)
Keys(mapping) == {mapping[i][1] : i \in 1..Len(mapping)}
Values(mapping) == {mapping[i][2] : i \in 1..Len(mapping)}

\* every identifier of the two tables and of the files, and one more
KnownNames ==
    Keys(get_country_name_mapping) \cup Values(get_country_name_mapping)
    \cup Keys(get_country_iso_mapping) \cup Values(get_country_iso_mapping)
    \cup {OvCountries[i] : i \in 1..Len(OvCountries)}
    \cup {WbCountries[i] : i \in 1..Len(WbCountries)}
    \cup {OvEvents[i].Country : i \in 1..Len(OvEvents)}
    \cup {"Atlantis"}

TablesIdempotent ==
    /\ \A x \in KnownNames :
          /\ NameMap(NameMap(x)) = NameMap(x)
          /\ IsoMap(IsoMap(x)) = IsoMap(x)
    /\ \A v \in Values(get_country_name_mapping) : NameMap(v) = v
    /\ \A v \in Values(get_country_iso_mapping) : IsoMap(v) = v

\* C18: each of the two country mappings gives, applied twice, what it
\* gives applied once, and leaves every value of its table unchanged; the
\* names and ISO codes of the loaded tables are left unchanged by it
C18_MappingIdempotent ==
    /\ TablesIdempotent
    /\ \A i \in 1..Len(df_events) :
          /\ NameMap(df_events[i].Country) = df_events[i].Country
          /\ IsoMap(df_events[i].ISOcode) = df_events[i].ISOcode
    /\ \A i \in 1..Len(df_gdp_growth) :
          NameMap(df_gdp_growth[i].Country) = df_gdp_growth[i].Country
    /\ \A i \in 1..Len(df_land_area) :
          NameMap(df_land_area[i].Country) = df_land_area[i].Country

\* files with spellings that the tables replace
C18_Witness ==
    /\ \E i \in 1..Len(files.gdp.ids) :
          /\ NameMap(files.gdp.ids[i]) # files.gdp.ids[i]
          /\ \E k \in 1..Len(df_gdp_growth) :
                df_gdp_growth[k].Country = NameMap(files.gdp.ids[i])
          /\ \A k \in 1..Len(df_gdp_growth) :
                df_gdp_growth[k].Country # files.gdp.ids[i]
    /\ \E i \in 1..Len(files.events) :
          NameMap(files.events[i].Country) # files.events[i].Country
    /\ \E k \in 1..Len(df_events) :
          df_events[k].Country = "United States" /\ df_events[k].ISOcode = "USA"

\* a selected country with a latest total that the treemap's join dropped
\* for want of a land-area row under its name
LostByName(c) ==
    /\ InSeq(c, selected_countries)
    /\ \E i \in 1..Len(df_t_filtered) :
          /\ df_t_filtered[i].Country = c
          /\ df_t_filtered[i].Year = latest_year
          /\ df_t_filtered[i].CO2 # NaN
    /\ \A i \in 1..Len(df_tree) : df_tree[i].Country # c
    /\ \A i \in 1..Len(df_land_area) : df_land_area[i].Country # c

\* the names of the land-area file that the name table has no entry for
\* and that are no country of the CO2 files
Unmapped ==
    {files.land.ids[i] : i \in 1..Len(files.land.ids)}
    \ (Keys(get_country_name_mapping) \cup available_countries(df_totals))

\* C19: when the land-area file spells a country in a way the name table
\* has no entry for, and the treemap's join loses a selected country, the
\* page says that no land-area data matched
C19_UnmappedIsLoud ==
    (SectionRun /\ Unmapped # {} /\ \E c \in available_countries(df_totals) :
                                        LostByName(c))
        => "info: No matching land-area data" \in rendered

(***************************************************************************)
(* Wide and long tables compared cell by cell.                             *)
(***************************************************************************)
YearLabels(w) == {w.columns[i] : i \in 1..Len(w.columns)} \cap
                 {LabelOf(y) : y \in YearMin..(YearMin + MaxYears)}

TotalsCells ==
    AsList([i \in 1..Len(df_totals) |->
        [id |-> df_totals[i].Country, Year |-> df_totals[i].Year,
         value |-> df_totals[i].CO2]])
CapitaCells ==
    AsList([i \in 1..Len(df_capita) |->
        [id |-> df_capita[i].Country, Year |-> df_capita[i].Year,
         value |-> df_capita[i].CO2_per_capita]])
SectorCells ==
    AsList([i \in 1..Len(df_sector) |->
        [id |-> <<df_sector[i].Sector, df_sector[i].Country>>,
         Year |-> df_sector[i].Year, value |-> df_sector[i].CO2]])
\* the GDP table as its loader returns it, before the name table
GdpCells ==
    LET df == load_gdp_data(files.gdp)
    IN  AsList([i \in 1..Len(df) |->
            [id |-> df[i].Country, Year |-> df[i].Year,
             value |-> df[i].GDP_Growth]])

\* one row per identifier and year column, with the cell of the file
OneRowPerPair(w, cells) ==
    /\ Len(cells) = Len(w.ids) * Cardinality(YearLabels(w))
    /\ \A k \in 1..Len(w.ids) : \A l \in YearLabels(w) :
          \E i \in 1..Len(cells) :
              /\ cells[i].id = w.ids[k]
              /\ LabelOf(cells[i].Year) = l
              /\ cells[i].value = w.val[w.ids[k]][l]

\* the long table pivoted back: a row per identifier, a column per year
Pivot(cells) ==
    LET ids  == {cells[i].id : i \in 1..Len(cells)}
        cols == {LabelOf(cells[i].Year) : i \in 1..Len(cells)}
    IN  [ids |-> ids, columns |-> cols,
         val |-> [id \in ids |-> [l \in cols |->
                     cells[CHOOSE i \in 1..Len(cells) :
                               cells[i].id = id /\ LabelOf(cells[i].Year) = l].value]]]

\* a wide file, rows and columns in no order
WholeFile(w) ==
    [ids |-> {w.ids[i] : i \in 1..Len(w.ids)},
     columns |-> {w.columns[i] : i \in 1..Len(w.columns)},
     val |-> w.val]
\* the same without the columns whose label is no year
YearColumnsOf(w) ==
    [ids |-> {w.ids[i] : i \in 1..Len(w.ids)},
     columns |-> YearLabels(w),
     val |-> [id \in {w.ids[i] : i \in 1..Len(w.ids)} |->
                 [l \in YearLabels(w) |-> w.val[id][l]]]]

IsYear(v) == v \in Nat /\ ~isna(v)
HasFile(name) == name \notin files.missing
YearsAreIntegers(df) == \A i \in 1..Len(df) : IsYear(df[i].Year)
\* the long table has a row per identifier for each year column and for
\* no other column
KeepsYearColumns(df, w) ==
    /\ YearsAreIntegers(df)
    /\ Len(df) = Len(w.ids) * Cardinality(YearLabels(w))

\* the CSV loaders drop what has no numeric year and return integer years
CsvLoadersDiscard ==
    /\ widgets_shown =>
          /\ KeepsYearColumns(df_totals, files.totals)
          /\ KeepsYearColumns(df_capita, files.capita)
          /\ KeepsYearColumns(df_sector, files.sector)
          /\ KeepsYearColumns(df_gdp_growth, files.gdp)
          /\ KeepsYearColumns(df_land_area, files.land)
          /\ YearsAreIntegers(df_events)
          /\ Len(df_events) = Cardinality({i \in 1..Len(files.events) :
                                    ~isna(to_numeric(files.events[i].Year))})

\* the sheet loader of src/data.py does the same on the sheet w
SheetLoaderDiscards(out, w) ==
    /\ out # ValueError
    /\ KeepsYearColumns(out, w)

\* C21: every loader, the CSV loaders and the Excel-sheet loader, discards
\* a column or row whose year label is not a number instead of failing,
\* and every row it returns has an integer Year
C21_UnparseableYearDiscarded ==
    /\ CsvLoadersDiscard
    /\ HasFile("totals") =>
          SheetLoaderDiscards(sheet_totals(files.totals), files.totals)
    /\ HasFile("capita") =>
          SheetLoaderDiscards(sheet_per_capita(files.capita), files.capita)
    /\ HasFile("sector") =>
          SheetLoaderDiscards(sheet_sector(files.sector), files.sector)

(***************************************************************************)
(* Missing files.                                                          *)
(***************************************************************************)
\* a file is missing and the run told the user so
MissingFileMessage ==
    files.missing # {} => "error: Data file not found" \in rendered

\* the KPI row, the trend chart and the race chart need the CO2 files only
Co2ViewsShown == "tabs" \in rendered /\ kpi # <<>>

\* C22: when a dataset file is missing the run shows a message and does
\* not crash, and only the views that depend on the missing dataset are
\* withheld: the views that need only the datasets that did load are still
\* rendered
C22_MissingFileDegrades ==
    /\ MissingFileMessage
    /\ (/\ files.missing # {}
        /\ {"totals", "capita", "sector"} \cap files.missing = {})
       => Co2ViewsShown

(***************************************************************************)
(* Presets.                                                                *)
(***************************************************************************)
Available == available_countries(df_totals)
Members(list) == {list[i] : i \in 1..Len(list)}
NoRepeats(list) == Cardinality(Members(list)) = Len(list)
\* any two members of list stand in list as they stand in order
InOrderOf(list, order) ==
    \A i, j \in 1..Len(list) :
        i < j => IndexOf(order, list[i]) < IndexOf(order, list[j])

\* list is the group of the preset restricted to the available countries
IsGroupOf(list, choice) ==
    /\ Members(list) = Members(preset_of(choice)) \cap Available
    /\ NoRepeats(list)
    /\ InOrderOf(list, preset_of(choice))

\* C23: a change of the preset to a group other than "Custom" replaces the
\* selection by that group's available countries in preset order, whatever
\* was selected before; a change to "Custom" leaves the selection as it was
C23_PresetReplacesSelection ==
    [][preset_key' # preset_key =>
          IF preset_key' = "Custom"
          THEN selected_countries' = selected_countries
          ELSE IsGroupOf(selected_countries', preset_key')]_vars

\* G7 was chosen over a selection with China and India: the four available
\* members of the group are selected, in the order of the group
C23_Witness ==
    /\ preset_key = "G7"
    /\ selected_countries = <<"United States", "Germany", "Japan", "Canada">>
    /\ {"United Kingdom", "China"} \cap Available = {"China"}
    /\ SectionRun

\* the default of the first render
DefaultSelection ==
    widgets_shown =>
        /\ Members(selected_countries)
               = {"United States", "China", "India"} \cap Available
        /\ NoRepeats(selected_countries)
        /\ InOrderOf(selected_countries, <<"United States", "China", "India">>)

AllAvailable == Members(selected_countries) \subseteq Available

\* C30: the first render selects United States, China and India as far as
\* they are available, and after any preset changes and multiselect edits
\* every selected country is an available one
C30_SelectionAvailable == DefaultSelection /\ []AllAvailable

\* files without India started on United States and China, and a group
\* with no available country was chosen since: nothing is selected
C30_Witness ==
    /\ preset_key = "Top 5 Per Capita"
    /\ selected_countries = <<>>
    /\ Available = {"United States", "China"}
    /\ rendered = {"warning: Please select at least one country"}

IsoOf(name) == MapGet(get_country_iso_mapping, name)
IsoEvents == load_events_data(files.events)
SelectedIso == AsList([i \in 1..Len(selected_countries) |-> IsoOf(selected_countries[i])])
EvtIso == {IsoOf(c) : c \in evt_cats}
IsoFig == render_tab1_events(IsoEvents, SelectedIso, year_range, show_events, EvtIso)

\* C25: in the ISO-keyed dashboard an event of one country, dated in the
\* period and of an enabled origin, is on the chart whenever the ISO code
\* of its country is among the selected ISO codes
C25_IsoEventOverlaid ==
    (show_events /\ SectionRun) =>
        \A i \in 1..Len(IsoEvents) :
            (/\ ~InSeq(IsoEvents[i].Country, GlobalMarkers)
             /\ between(IsoEvents[i].Year, year_range[1], year_range[2])
             /\ IsoEvents[i].ISOcode \in EvtIso
             /\ InSeq(IsoEvents[i].ISOcode, SelectedIso))
            => \E a \in 1..Len(IsoFig.annotations) :
                   /\ IsoFig.annotations[a].text = IsoEvents[i].Event
                   /\ IsoFig.annotations[a].x = IsoEvents[i].Year

\* what the chart of the ISO-keyed dashboard does show: the events whose
\* Country cell is "Global", "World" or itself one of the selected codes
IsoOverlayByCountryCell ==
    (show_events /\ SectionRun) =>
        \A i \in 1..Len(IsoEvents) :
            (/\ between(IsoEvents[i].Year, year_range[1], year_range[2])
             /\ IsoEvents[i].ISOcode \in EvtIso)
            => ((\E a \in 1..Len(IsoFig.annotations) :
                    /\ IsoFig.annotations[a].text = IsoEvents[i].Event
                    /\ IsoFig.annotations[a].x = IsoEvents[i].Year)
                <=> \/ InSeq(IsoEvents[i].Country, GlobalMarkers)
                    \/ InSeq(IsoEvents[i].Country, SelectedIso))

(***************************************************************************)
(* The two series of the cross-correlation, against the files.             *)
(***************************************************************************)
\* the years for which the analysis country has a total, a GDP growth
TotalRows(y) ==
    {i \in 1..Len(df_totals) :
        /\ df_totals[i].Country = analysis_country
        /\ df_totals[i].Year = y /\ ~isna(df_totals[i].CO2)}
GdpRows(y) ==
    {i \in 1..Len(df_gdp_growth) :
        /\ df_gdp_growth[i].Country = analysis_country
        /\ df_gdp_growth[i].Year = y /\ ~isna(df_gdp_growth[i].GDP_Growth)}
HasCO2(y) == TotalRows(y) # {}
HasGdp(y) == GdpRows(y) # {}
CO2At(y) == df_totals[CHOOSE i \in TotalRows(y) : TRUE].CO2
GdpAt(y) == df_gdp_growth[CHOOSE i \in GdpRows(y) : TRUE].GDP_Growth
DataYears == {df_totals[i].Year : i \in 1..Len(df_totals)}
             \cup {df_gdp_growth[i].Year : i \in 1..Len(df_gdp_growth)}

\* change is (cur - prev) / prev * 100, with x/0 infinite
IsChange(change, prev, cur) ==
    IF prev = 0 THEN cur # 0 /\ change = PosInf
    ELSE change * prev = (cur - prev) * 100

\* C26: the CO2 change of year y is (CO2[y] - CO2[y-1]) / CO2[y-1] * 100
\* with y-1 the calendar year before y; the earliest year and a year whose
\* preceding calendar year has no CO2 value have no change and do not
\* enter the correlation
C26_ChangeFromPrecedingYear ==
    PeakShown =>
        \A i \in 1..Len(merged_ccf) :
            /\ HasCO2(merged_ccf[i].Year) /\ HasCO2(merged_ccf[i].Year - 1)
            /\ IsChange(merged_ccf[i].CO2_YoY_Change,
                        CO2At(merged_ccf[i].Year - 1), CO2At(merged_ccf[i].Year))

\* the latest year before y with a total of the analysis country
PreviousObservation(y) ==
    CHOOSE p \in DataYears :
        /\ p < y /\ HasCO2(p)
        /\ \A q \in DataYears : (q < y /\ HasCO2(q)) => q <= p
\* the change of year y as the script computes it: from the row before
HasChange(y) ==
    /\ HasCO2(y)
    /\ \E p \in DataYears : p < y /\ HasCO2(p)
    /\ ~(CO2At(PreviousObservation(y)) = 0 /\ CO2At(y) = 0)

\* what the script does: the change of a year is taken from the latest
\* earlier year that has a total, whichever year that is
ChangeFromPreviousRow ==
    SectionRun =>
        \A i \in 1..Len(merged_ccf) :
            /\ HasChange(merged_ccf[i].Year)
            /\ IsChange(merged_ccf[i].CO2_YoY_Change,
                        CO2At(PreviousObservation(merged_ccf[i].Year)),
                        CO2At(merged_ccf[i].Year))

\* C27: the two arrays given to the correlation have the same length,
\* position i of both is the same year, the years increase strictly, and
\* a year is in them exactly if the country has a CO2 change and a GDP
\* growth for it, neither missing
C27_AlignedSeries ==
    PeakShown =>
        /\ Len(co2_series_of(merged_ccf)) = Len(gdp_series_of(merged_ccf))
        /\ \A i \in 1..Len(merged_ccf) :
              /\ co2_series_of(merged_ccf)[i] = merged_ccf[i].CO2_YoY_Change
              /\ HasChange(merged_ccf[i].Year) /\ HasGdp(merged_ccf[i].Year)
              /\ IsChange(merged_ccf[i].CO2_YoY_Change,
                          CO2At(PreviousObservation(merged_ccf[i].Year)),
                          CO2At(merged_ccf[i].Year))
              /\ gdp_series_of(merged_ccf)[i] = GdpAt(merged_ccf[i].Year)
        /\ \A i \in 1..(Len(merged_ccf) - 1) :
              merged_ccf[i].Year < merged_ccf[i + 1].Year
        /\ \A y \in DataYears :
              (\E i \in 1..Len(merged_ccf) : merged_ccf[i].Year = y)
              <=> (HasChange(y) /\ HasGdp(y))

\* a year inside the series is left out for its missing GDP growth, and
\* the first year for having no change
C27_Witness ==
    /\ PeakShown
    /\ \E i \in 1..(Len(merged_ccf) - 1) :
          /\ merged_ccf[i + 1].Year = merged_ccf[i].Year + 2
          /\ HasChange(merged_ccf[i].Year + 1)
          /\ ~HasGdp(merged_ccf[i].Year + 1)
    /\ HasCO2(YearMin) /\ HasGdp(YearMin) /\ merged_ccf[1].Year = YearMin + 1

\* C28: the peak lag is the first position, going through the lags in the
\* order -L, -L+1, ..., +L, at which the absolute correlation is at its
\* maximum
C28_FirstMaximum ==
    (PeakShown /\ Defined) =>
        /\ peak[1].peak_idx \in DOMAIN ccf_subset
        /\ peak[1].peak_lag = LagAt(peak[1].peak_idx)
        /\ \A i \in DOMAIN ccf_subset :
              /\ AbsNum(i) <= AbsNum(peak[1].peak_idx)
              /\ i < peak[1].peak_idx => AbsNum(i) < AbsNum(peak[1].peak_idx)

\* the maximum is met again at a later position, and the peak is not at
\* the first position
C28_Witness ==
    /\ PeakShown /\ Defined
    /\ peak[1].peak_idx > 0
    /\ \E i \in DOMAIN ccf_subset :
          i > peak[1].peak_idx /\ AbsNum(i) = AbsNum(peak[1].peak_idx)

(***************************************************************************)
(* The guard on the country selection.                                     *)
(***************************************************************************)
\* nothing of sections 8 and 9 happened: no filtered table, no tab, no KPI
\* row, no chart
NothingRendered ==
    /\ ~SectionRun /\ kpi = <<>> /\ latest_year = 0
    /\ df_t_filtered = <<>> /\ df_c_filtered = <<>> /\ df_s_filtered = <<>>
    /\ fig_trend = EmptyFig /\ df_tree = <<>> /\ df_race = <<>>
    /\ merged_ccf = <<>> /\ lag_slider = <<>> /\ peak = <<>> /\ interp = <<>>

\* C29: when all files loaded and no country is selected, the run shows the
\* "select at least one country" warning and stops before any table is
\* filtered and before any tab, KPI or chart; every rendered tab comes
\* from a selection that is not empty
C29_EmptySelectionStops ==
    /\ (files.missing = {} /\ selected_countries = <<>>) =>
          /\ rendered = {"warning: Please select at least one country"}
          /\ NothingRendered
    /\ SectionRun =>
          /\ selected_countries # <<>>
          /\ kpi # <<>>
          /\ \A i \in 1..Len(df_t_filtered) :
                InSeq(df_t_filtered[i].Country, selected_countries)

\* the multiselect was emptied by hand on files that hold rows of the
\* period for the countries selected before
C29_Witness ==
    /\ files.missing = {} /\ preset_key = "BRICS"
    /\ selected_countries = <<>>
    /\ "warning: Please select at least one country" \in rendered
    /\ FilterTable(df_totals, <<"Brazil", "Russia", "India", "China">>,
                   year_range) # <<>>

====
